---- MODULE Spec2Model ----
(***************************************************************************)
(* A model of the analytical core of civinigrani: the PRGI engine          *)
(* (src/src/prgi.py compute_prgi), the risk ranker                         *)
(* (get_top_high_risk_districts), the grievance spike detector             *)
(* (src/src/validation/pgsm_validator.py detect_pgsm_spikes) and the       *)
(* PeerLens engine (src/src/intelligence/peerlens.py).                     *)
(*                                                                         *)
(* Numbers: every quantity of the tables is an integer; a quotient (a      *)
(* PRGI, a mean, a ratio) is kept exactly as a pair <<numerator,           *)
(* denominator>> with a positive denominator, and compared by              *)
(* cross-multiplication.  Text conversions (lower-casing, trimming,        *)
(* substring tests, date parsing) are tables over the strings the inputs   *)
(* are drawn from.                                                         *)
(***************************************************************************)
EXTENDS Integers, Sequences, FiniteSets, TLC

VARIABLES
    pc,            \* which component's call comes next / has completed
    pds_columns,   \* compute_prgi: the caller's df.columns (a sequence of names)
    pds_rows,      \* compute_prgi: the caller's rows, each a sequence of cells aligned with pds_columns
    prgi_out,      \* compute_prgi: the returned table (a set of rows; {} is the empty DataFrame)
    prgi_raised,   \* compute_prgi: TRUE when an exception escaped to the caller
    pds_given,     \* the table as the caller built it, before any call: [columns, rows]
    rank_table,    \* get_top_high_risk_districts: the caller's prgi_df
    rank_n,        \* get_top_high_risk_districts: the argument n
    rank_seen,     \* the prgi_df as each completed call saw it, in call order
    rank_results,  \* the sequences returned by the completed calls, in call order
    grievances,    \* detect_pgsm_spikes: the caller's grievance table
    edits,         \* the (district, month) keys the caller changed since the last detection
    spikes,        \* detect_pgsm_spikes: the table returned by the last call
    spikes_prev,   \* the table returned by the call before it
    edits_prev,    \* the keys changed between those two calls
    prgi_df,     \* PeerLens.__init__: prgi_df
    population_df,      \* PeerLens.__init__: population_df
    grievance_df,    \* PeerLens.__init__: grievance_df
    peer_cfg,      \* PeerLens.__init__: [alpha, beta, min_peers]
    peer_df,       \* PeerLens.df, the prepared table
    peer_query,    \* the district name given to analyze_district
    peer_result,   \* the dictionary returned by analyze_district
    anom_columns,  \* anomaly detection: the columns of the caller's table, a set of names
    anom_rows,     \* anomaly detection: the caller's rows, each a function from anom_columns to cells
    simple_out,    \* detect_simple_anomalies: the returned rows
    detector,      \* the AnomalyDetector instance: [contamination, model, scaler_fitted, feature_names]
    detector_log,  \* the calls made so far, in order: [op, raised, error]
    detect_out,    \* AnomalyDetector.detect: the rows the last call returned
    raw_columns,   \* load_grievance_signals: the caller's df.columns
    raw_rows,      \* load_grievance_signals: the caller's rows, aligned with raw_columns
    signals_out,   \* load_grievance_signals: the returned table [columns, rows]
    signals_branch,\* load_grievance_signals: the return statement that produced it
    raw_given,     \* the grievance table as the caller built it, before any call: [columns, rows]
    dash_df,       \* dashboard: the PRGI table, a set of records [district, month, prgi]
    dash_district, \* dashboard: the district picked in the selector
    dash_alert     \* dashboard: whether the spike alert is shown

vars == <<pc, pds_columns, pds_rows, prgi_out, prgi_raised, pds_given,
          rank_table, rank_n, rank_seen, rank_results,
          grievances, edits, spikes, spikes_prev, edits_prev,
          prgi_df, population_df, grievance_df, peer_cfg, peer_df, peer_query, peer_result,
          anom_columns, anom_rows, simple_out, detector, detector_log, detect_out,
          raw_columns, raw_rows, signals_out, signals_branch, raw_given,
          dash_df, dash_district, dash_alert>>

prgiVars == <<pds_columns, pds_rows, prgi_out, prgi_raised, pds_given>>
rankVars == <<rank_table, rank_n, rank_seen, rank_results>>
spikeVars == <<grievances, edits, spikes, spikes_prev, edits_prev>>
peerVars == <<prgi_df, population_df, grievance_df, peer_cfg, peer_df, peer_query, peer_result>>
anomVars == <<anom_columns, anom_rows, simple_out, detector, detector_log, detect_out>>
loaderVars == <<raw_columns, raw_rows, signals_out, signals_branch, raw_given>>
dashVars == <<dash_df, dash_district, dash_alert>>

(***************************************************************************)
(* Generic helpers.                                                        *)
(***************************************************************************)
Range(s) == {s[i] : i \in 1..Len(s)}

RECURSIVE SumSeq(_)
SumSeq(s) == IF s = <<>> THEN 0 ELSE Head(s) + SumSeq(Tail(s))

RECURSIVE SumOver(_, _)
\* the sum of f[x] over the finite set S, S a subset of DOMAIN f
SumOver(f, S) ==
    IF S = {} THEN 0
    ELSE LET x == CHOOSE y \in S : TRUE IN f[x] + SumOver(f, S \ {x})

SeqsUpTo(S, n) == UNION {[1..k -> S] : k \in 0..n}

(***************************************************************************)
(* Text conversions, as tables over the strings of the inputs.             *)
(***************************************************************************)
\* str.lower()
Lower(s) ==
    CASE s = "State_Name" -> "state_name"
      [] s = " State " -> " state "
      [] s = " District_Name " -> " district_name "
      [] s = "Month" -> "month"
      [] s = "Uttar Pradesh" -> "uttar pradesh"
      [] s = " UTTAR PRADESH " -> " uttar pradesh "
      [] s = "UTTAR PRADESH" -> "uttar pradesh"
      [] s = "Bihar" -> "bihar"
      [] s = "Agra" -> "agra"
      [] s = " Agra " -> " agra "
      [] s = "Lucknow" -> "lucknow"
      [] s = "Meerut" -> "meerut"
      [] s = "Kanpur" -> "kanpur"
      [] s = "Jhansi" -> "jhansi"
      [] s = "Nowhere" -> "nowhere"
      [] s = " Grievance_Signals " -> " grievance_signals "
      [] s = "Source_File" -> "source_file"
      [] OTHER -> s

\* str.strip()
Strip(s) ==
    CASE s = " State " -> "State"
      [] s = " state " -> "state"
      [] s = " District_Name " -> "District_Name"
      [] s = " district_name " -> "district_name"
      [] s = " UTTAR PRADESH " -> "UTTAR PRADESH"
      [] s = " uttar pradesh " -> "uttar pradesh"
      [] s = " Agra " -> "Agra"
      [] s = " agra " -> "agra"
      [] s = " Grievance_Signals " -> "Grievance_Signals"
      [] s = " grievance_signals " -> "grievance_signals"
      [] OTHER -> s

\* the substrings, among those the code searches for, that a normalized column name holds
Substrings(c) ==
    CASE c = "state_name" -> {"state", "name"}
      [] c = "state" -> {"state"}
      [] c = "district_name" -> {"district", "name"}
      [] c = "district" -> {"district"}
      [] c = "month" -> {"month"}
      [] c = "month_idx" -> {"month"}
      [] c = "year" -> {"year"}
      [] c = "total_wheat_allocated" -> {"total", "alloc"}
      [] c = "total_rice_allocated" -> {"total", "alloc"}
      [] c = "total_wheat_distributed" -> {"total", "distrib"}
      [] c = "total_rice_distributed" -> {"total", "distrib"}
      [] c = "total_allocation" -> {"total", "alloc"}
      [] c = "total_distribution" -> {"total", "distrib"}
      [] c = "allocation" -> {"alloc"}
      [] c = "distribution" -> {"distrib"}
      [] c = "extra_allocation" -> {"alloc"}
      [] OTHER -> {}

\* Python's `sub in c`
Contains(c, sub) == sub \in Substrings(c)

\* [c for c in df.columns if all(sub in c for sub in subs)], in column order
ColumnsWhere(cols, subs) ==
    LET RECURSIVE Pick(_)
        Pick(i) == IF i > Len(cols) THEN <<>>
                   ELSE IF \A sub \in subs : Contains(cols[i], sub)
                        THEN <<cols[i]>> \o Pick(i + 1)
                        ELSE Pick(i + 1)
    IN  Pick(1)

\* next((c for c in df.columns if all(sub in c for sub in subs)), dflt)
FirstOr(cols, subs, dflt) ==
    IF ColumnsWhere(cols, subs) = <<>> THEN dflt ELSE Head(ColumnsWhere(cols, subs))

NaT == <<0, 0, 0>>

\* pd.to_datetime(cell, errors='coerce'): <<year, month, day>>, NaT when unparseable.
\* A cell of a numeric column (the CSV reader infers the type of a column of month
\* numbers) is a count of nanoseconds since 1970-01-01: <<1970, 1, 1, nanoseconds>>
ToDatetime(cell) ==
    CASE cell = "2024-01-01" -> <<2024, 1, 1>>
      [] cell = "2024-01-15" -> <<2024, 1, 15>>
      [] cell = "2024-02-01" -> <<2024, 2, 1>>
      [] cell = "1" -> <<1970, 1, 1, 1>>
      [] cell = "2" -> <<1970, 1, 1, 2>>
      [] OTHER -> NaT

\* pd.to_numeric(cell, errors='coerce').fillna(0): a non-numeric or missing cell counts as zero
ToNumeric(cell) ==
    CASE cell = "0" -> 0
      [] cell = "300" -> 300
      [] cell = "700" -> 700
      [] cell = "1000" -> 1000
      [] cell = "1200" -> 1200
      [] cell = "-500" -> 0 - 500
      [] OTHER -> 0

\* the order of Python strings (code points), on the district names of the inputs
StrRank(s) ==
    CASE s = " Agra " -> 0
      [] s = "Agra" -> 1
      [] s = "Jhansi" -> 2
      [] s = "Kanpur" -> 3
      [] s = "Lucknow" -> 4
      [] s = "Meerut" -> 5
      [] s = "agra" -> 6
      [] s = "jhansi" -> 7
      [] s = "kanpur" -> 8
      [] s = "lucknow" -> 9
      [] s = "meerut" -> 10
      [] OTHER -> 11

(***************************************************************************)
(* Exact quotients: <<numerator, denominator>>, denominator > 0.           *)
(***************************************************************************)
Quot(n, d) == <<n, d>>
QLess(p, q) == p[1] * q[2] < q[1] * p[2]
QEq(p, q) == p[1] * q[2] = q[1] * p[2]
QLeq(p, q) == p[1] * q[2] <= q[1] * p[2]
\* 1 - p
OneMinus(p) == <<p[2] - p[1], p[2]>>

(***************************************************************************)
(* PRGI engine: compute_prgi (src/src/prgi.py).                            *)
(***************************************************************************)
TARGET_STATE == "Uttar Pradesh"

None == "<None>"

\* df.columns = [c.lower().strip() for c in df.columns]
NormColumns(cols) == [i \in DOMAIN cols |-> Strip(Lower(cols[i]))]

InColumns(c, cols) == \E i \in DOMAIN cols : cols[i] = c

\* the position of the first column named c
ColIndex(cols, c) == CHOOSE i \in DOMAIN cols : cols[i] = c /\ \A j \in DOMAIN cols : cols[j] = c => i <= j

\* two columns carry the name c: df[c] is then a DataFrame, not a Series
IsDuplicated(cols, c) == Cardinality({i \in DOMAIN cols : cols[i] = c}) > 1

\* next((c for c in df.columns if 'state' in c and 'name' in c), next((c ... if 'state' in c), None))
StateCol(cols) ==
    FirstOr(cols, {"state", "name"}, FirstOr(cols, {"state"}, None))

\* mask = df[state_col].astype(str).str.strip().str.lower() == TARGET_STATE.lower()
StateMask(cell) == Lower(Strip(cell)) = Lower(TARGET_STATE)

AllocColsStrict(cols) == ColumnsWhere(cols, {"alloc", "total"})
DistColsStrict(cols) == ColumnsWhere(cols, {"distrib", "total"})
AllocColsLoose(cols) == ColumnsWhere(cols, {"alloc"})
DistColsLoose(cols) == ColumnsWhere(cols, {"distrib"})

\* lines 53-59: the looser match replaces BOTH lists when either strict list is empty
UseLooseMatch(cols) == AllocColsStrict(cols) = <<>> \/ DistColsStrict(cols) = <<>>
AllocCols(cols) == IF UseLooseMatch(cols) THEN AllocColsLoose(cols) ELSE AllocColsStrict(cols)
DistCols(cols) == IF UseLooseMatch(cols) THEN DistColsLoose(cols) ELSE DistColsStrict(cols)

\* a total that takes the first selected column only
RowTotalFirstColumn(cols, row, qcols) ==
    IF qcols = <<>> THEN 0 ELSE ToNumeric(row[ColIndex(cols, qcols[1])])
\* df['total_...'] = 0; for c in cols: df['total_...'] += pd.to_numeric(df[c], errors='coerce').fillna(0)
RowTotal(cols, row, qcols) ==
    SumSeq([k \in DOMAIN qcols |-> ToNumeric(row[ColIndex(cols, qcols[k])])])

\* next((c ... if 'district' in c and 'name' in c), next((c ... if 'district' in c), 'district_name'))
DistNameCol(cols) ==
    FirstOr(cols, {"district", "name"}, FirstOr(cols, {"district"}, "district_name"))

\* Series.clip(0, 1) of a quotient
ClipNoBounds(p) == p
Clip01(p) == IF p[1] < 0 THEN <<0, p[2]>> ELSE IF p[1] > p[2] THEN <<p[2], p[2]>> ELSE p

\* grouped = grouped[grouped['total_allocation'] > 0]
KeepEveryGroup(alloc) == TRUE
KeepGroup(alloc) == alloc > 0

\* the district value of an output row, as the groupby key carries it
DistrictLowered(cell) == Lower(cell)
DistrictKey(cell) == cell

\* what one run of the try-block leaves: whether it raised, the table it returned,
\* and the caller's DataFrame object after it
PrgiOutcome(raised, out, cols, rows) ==
    [raised |-> raised, out |-> out, df_columns |-> cols, df_rows |-> rows]

\* lines 49-89, on the rows left by dropna; work[i] = [cells, month_idx]
PrgiAggregate(cols, work, callerCols, callerRows) ==
    LET alloc_cols == AllocCols(cols)
        dist_cols == DistCols(cols)
        dist_name_col == DistNameCol(cols)
        accessed == Range(alloc_cols) \cup Range(dist_cols) \cup {dist_name_col}
    IN  IF (\E c \in accessed : IsDuplicated(cols, c)) \/ ~InColumns(dist_name_col, cols)
        THEN PrgiOutcome(TRUE, {}, callerCols, callerRows)
        ELSE
        LET total_allocation == [i \in DOMAIN work |-> RowTotal(cols, work[i].cells, alloc_cols)]
            total_distribution == [i \in DOMAIN work |-> RowTotal(cols, work[i].cells, dist_cols)]
            key == [i \in DOMAIN work |->
                      <<work[i].month_idx, DistrictKey(work[i].cells[ColIndex(cols, dist_name_col)])>>]
            members(k) == {i \in DOMAIN work : key[i] = k}
            grouped == {[month |-> k[1], district |-> k[2],
                         allocation |-> SumOver(total_allocation, members(k)),
                         distribution |-> SumOver(total_distribution, members(k))]
                        : k \in Range(key)}
            out == {[month |-> g.month, district |-> g.district,
                     allocation |-> g.allocation, distribution |-> g.distribution,
                     prgi |-> Clip01(OneMinus(Quot(g.distribution, g.allocation)))]
                    : g \in {h \in grouped : KeepGroup(h.allocation)}}
        IN  PrgiOutcome(FALSE, out, callerCols, callerRows)

\* lines 19-89: the body of the try
PrgiTry(cols0, rows0) ==
    LET cols == NormColumns(cols0)
        state_col == StateCol(cols)
        filtered == state_col # None
    IN  IF filtered /\ IsDuplicated(cols, state_col)
        THEN PrgiOutcome(TRUE, {}, cols, rows0)
        ELSE
        LET kept == IF filtered
                    THEN SelectSeq(rows0, LAMBDA r : StateMask(r[ColIndex(cols, state_col)]))
                    ELSE rows0
        IN  IF kept = <<>> THEN PrgiOutcome(FALSE, {}, cols, rows0)
            ELSE IF InColumns("month", cols) /\ IsDuplicated(cols, "month")
            THEN PrgiOutcome(TRUE, {}, cols, rows0)
            ELSE IF InColumns("month", cols)
            THEN
              LET month_idx == [i \in DOMAIN kept |-> ToDatetime(kept[i][ColIndex(cols, "month")])]
                  \* without a state column df is still the caller's object: it gains the column
                  callerCols == IF filtered THEN cols ELSE Append(cols, "month_idx")
                  callerRows == IF filtered THEN rows0
                                ELSE [i \in DOMAIN rows0 |-> Append(rows0[i], month_idx[i])]
                  dfCols == Append(cols, "month_idx")
                  all == [i \in DOMAIN kept |-> [cells |-> kept[i], month_idx |-> month_idx[i]]]
                  work == SelectSeq(all, LAMBDA w : w.month_idx # NaT)
              IN  PrgiAggregate(dfCols, work, callerCols, callerRows)
            ELSE IF InColumns("year", cols) /\ InColumns("month", cols)
            THEN PrgiOutcome(FALSE, {}, cols, rows0)   \* lines 38-43: never reached
            ELSE PrgiOutcome(FALSE, {}, cols, rows0)

\* lines 91-93: except Exception -> return pd.DataFrame()
LetItRaise(o) == o
ExceptHandler(o) == IF o.raised THEN PrgiOutcome(FALSE, {}, o.df_columns, o.df_rows) ELSE o

\* compute_prgi(df)
compute_prgi(cols0, rows0) ==
    IF rows0 = <<>> \/ cols0 = <<>>
    THEN PrgiOutcome(FALSE, {}, cols0, rows0)
    ELSE ExceptHandler(PrgiTry(cols0, rows0))

(***************************************************************************)
(* The tables compute_prgi is given.  A table has one of the column        *)
(* layouts below; each row is the layout's base row (the Agra record of    *)
(* the end-to-end scenario) with at most one cell replaced.                *)
(***************************************************************************)
MaxRows == 2

SchemaFull == <<"State_Name", " District_Name ", "month", "total_wheat_allocated",
                "total_rice_allocated", "total_wheat_distributed", "total_rice_distributed">>
SchemaNoState == <<"district", "Month", "allocation", "distribution">>
SchemaNoMonth == <<" State ", "district", "year", "allocation">>
SchemaNoDistrict == <<"State_Name", "month", "allocation", "distribution">>
SchemaNoQuantity == <<"State_Name", "district", "month">>
SchemaNoDistribution == <<"state", "district", "month", "allocation">>
SchemaMixed == <<"state", "district", "month", "total_wheat_allocated", "extra_allocation", "distribution">>
SchemaTwoStates == <<"State_Name", "state_name", "district", "month">>
SchemaYearMonth == <<"state", "district", "year", "month", "allocation", "distribution">>
SchemaNoColumns == <<>>

Schemas == {SchemaFull, SchemaNoState, SchemaNoMonth, SchemaNoDistrict, SchemaNoQuantity,
            SchemaNoDistribution, SchemaMixed, SchemaTwoStates, SchemaYearMonth, SchemaNoColumns}

\* the base row's cell under a (normalized) column name
BaseCell(c) ==
    CASE Contains(c, "state") -> "Uttar Pradesh"
      [] Contains(c, "district") -> "Agra"
      [] c = "month" -> "2024-01-01"
      [] c = "year" -> "2024"
      [] c \in {"total_wheat_allocated", "allocation"} -> "1000"
      [] c \in {"total_wheat_distributed", "distribution"} -> "700"
      [] OTHER -> "0"

\* the cells a column may hold
CellDomain(c) ==
    CASE Contains(c, "state") -> {"Uttar Pradesh", " UTTAR PRADESH ", "Bihar"}
      [] Contains(c, "district") -> {"Agra", "agra", "Lucknow"}
      [] c = "month" -> {"2024-01-01", "2024-01-15", "2024-02-01", "n/a"}
      [] c = "year" -> {"2023", "2024"}
      [] c \in {"total_rice_allocated", "total_rice_distributed", "extra_allocation"} -> {"0", "300", "n/a"}
      [] OTHER -> {"0", "700", "1000", "1200", "-500", "n/a"}

\* a table with a year column holds month numbers in its month column; "" is a
\* missing cell
HoldsMonthNumbers(schema, c) == c = "month" /\ InColumns("year", NormColumns(schema))

BaseCellIn(schema, c) == IF HoldsMonthNumbers(schema, c) THEN "1" ELSE BaseCell(c)

CellDomainIn(schema, c) == IF HoldsMonthNumbers(schema, c) THEN {"1", "2", ""} ELSE CellDomain(c)

BaseRow(schema) == [i \in DOMAIN schema |-> BaseCellIn(schema, NormColumns(schema)[i])]

RowsOf(schema) ==
    {BaseRow(schema)} \cup
    UNION {{[BaseRow(schema) EXCEPT ![i] = v] : v \in CellDomainIn(schema, NormColumns(schema)[i])} :
           i \in DOMAIN schema}

PrgiIdle ==
    /\ pds_columns = <<>>
    /\ pds_rows = <<>>
    /\ prgi_out = {}
    /\ prgi_raised = FALSE
    /\ pds_given = [columns |-> <<>>, rows |-> <<>>]

RankIdle ==
    /\ rank_table = {}
    /\ rank_n = 0
    /\ rank_seen = <<>>
    /\ rank_results = <<>>

SpikeIdle ==
    /\ grievances = {}
    /\ edits = {}
    /\ spikes = <<>>
    /\ spikes_prev = <<>>
    /\ edits_prev = {}

PeerIdle ==
    /\ prgi_df = {}
    /\ population_df = {}
    /\ grievance_df = {}
    /\ peer_cfg = [alpha |-> <<0, 1>>, beta |-> <<0, 1>>, min_peers |-> 0]
    /\ peer_df = <<>>
    /\ peer_query = ""
    /\ peer_result = [error |-> "not called"]

AnomIdle ==
    /\ anom_columns = {}
    /\ anom_rows = <<>>
    /\ simple_out = <<>>
    /\ detector = [contamination |-> <<0, 1>>, model |-> "None", scaler_fitted |-> FALSE,
                   feature_names |-> <<>>]
    /\ detector_log = <<>>
    /\ detect_out = <<>>

LoaderIdle ==
    /\ raw_columns = <<>>
    /\ raw_rows = <<>>
    /\ signals_out = [columns |-> <<>>, rows |-> <<>>]
    /\ signals_branch = "not called"
    /\ raw_given = [columns |-> <<>>, rows |-> <<>>]

DashIdle ==
    /\ dash_df = {}
    /\ dash_district = ""
    /\ dash_alert = FALSE

\* the caller loads a raw PDS table
Init ==
    /\ pc = "prgi"
    /\ \E schema \in Schemas :
         /\ pds_columns = schema
         /\ pds_rows \in SeqsUpTo(RowsOf(schema), MaxRows)
    /\ pds_given = [columns |-> pds_columns, rows |-> pds_rows]
    /\ prgi_out = {}
    /\ prgi_raised = FALSE
    /\ RankIdle /\ SpikeIdle /\ PeerIdle /\ AnomIdle /\ LoaderIdle /\ DashIdle

\* prgi_df = compute_prgi(raw_pds_df)
ComputePrgi ==
    /\ pc = "prgi"
    /\ LET o == compute_prgi(pds_columns, pds_rows)
       IN  /\ prgi_out' = o.out
           /\ prgi_raised' = o.raised
           /\ pds_columns' = o.df_columns
           /\ pds_rows' = o.df_rows
    /\ pc' = "prgi_done"
    /\ UNCHANGED <<dashVars, anomVars, loaderVars, pds_given, rankVars, spikeVars, peerVars>>

Next == ComputePrgi

Spec == Init /\ [][Next]_vars

(***************************************************************************)
(* Claims about compute_prgi (checked under Spec).                         *)
(***************************************************************************)
PrgiDone == pc = "prgi_done"

GivenCols == NormColumns(pds_given.columns)

\* the given rows that belong to the target state (every row when no state column exists)
GivenStateRows ==
    IF StateCol(GivenCols) = None THEN Range(pds_given.rows)
    ELSE {r \in Range(pds_given.rows) : StateMask(r[ColIndex(GivenCols, StateCol(GivenCols))])}

\* C1: every row returned by compute_prgi has 0 <= prgi <= 1, and prgi = 0 exactly
\* when the row's distribution is greater than or equal to its allocation.
C1_PrgiBounds ==
    PrgiDone =>
        \A r \in prgi_out :
            /\ r.prgi[2] > 0
            /\ 0 <= r.prgi[1] /\ r.prgi[1] <= r.prgi[2]
            /\ (r.prgi[1] = 0) <=> (r.distribution >= r.allocation)

\* an output row whose distribution exceeds its allocation (the clip at 0 acted), in a
\* run that also returned a row short of its allocation
C1_Witness ==
    /\ PrgiDone
    /\ \E r \in prgi_out : r.distribution > r.allocation /\ r.prgi[1] = 0
    /\ \E r \in prgi_out : r.distribution < r.allocation /\ r.prgi[1] > 0

\* C2: no (district, month) group whose summed allocation is <= 0 appears in the
\* output: every output row has allocation > 0.
C2_ZeroAllocationExcluded ==
    PrgiDone => \A r \in prgi_out : r.allocation > 0

\* a target-state row with a parseable month whose (month, district) group is absent
\* from the output, while another group is present
C2_Witness ==
    /\ PrgiDone
    /\ prgi_out # {}
    /\ InColumns("month", GivenCols)
    /\ \E r \in GivenStateRows :
         /\ ToDatetime(r[ColIndex(GivenCols, "month")]) # NaT
         /\ \A o \in prgi_out :
              <<o.month, o.district>> # <<ToDatetime(r[ColIndex(GivenCols, "month")]),
                                         r[ColIndex(GivenCols, DistNameCol(GivenCols))]>>

\* C3: compute_prgi never raises to its caller; an empty table, a table with no row
\* of the target state, with no month column, with no district column, with no
\* quantity columns, and any exception raised while processing give an empty result.
C3_NeverRaises ==
    PrgiDone =>
        /\ prgi_raised = FALSE
        /\ ( \/ pds_given.rows = <<>>
             \/ pds_given.columns = <<>>
             \/ GivenStateRows = {}
             \/ ~InColumns("month", GivenCols)
             \/ ~(\E i \in DOMAIN GivenCols : Contains(GivenCols[i], "district"))
             \/ ~(\E i \in DOMAIN GivenCols :
                      Contains(GivenCols[i], "alloc") \/ Contains(GivenCols[i], "distrib"))
             \/ PrgiTry(pds_given.columns, pds_given.rows).raised )
           => prgi_out = {}

\* a call in which the body raised (no district column to group by) and the caller
\* got the empty table
C3_Witness ==
    /\ PrgiDone
    /\ pds_given.rows # <<>>
    /\ PrgiTry(pds_given.columns, pds_given.rows).raised
    /\ prgi_out = {}
    /\ prgi_raised = FALSE

\* the input of the end-to-end scenario: one row, district "Agra", state "Uttar
\* Pradesh", month 2024-01, wheat 1000 allocated and 700 distributed, rice 0 and 0
ScenarioGiven ==
    /\ pds_given.columns = SchemaFull
    /\ pds_given.rows = << <<"Uttar Pradesh", "Agra", "2024-01-01", "1000", "0", "700", "0">> >>

ScenarioRow(district) ==
    [month |-> <<2024, 1, 1>>, district |-> district,
     allocation |-> 1000, distribution |-> 700, prgi |-> <<300, 1000>>]

\* C4 as claimed: district names are lower-cased, the scenario yields district "agra"
C4_AsClaimed ==
    PrgiDone =>
        /\ \A r \in prgi_out : r.district = Lower(r.district)
        /\ ScenarioGiven => prgi_out = {ScenarioRow("agra")}

\* C4 amended: compute_prgi keeps every district name exactly as the input spells it
\* (it lower-cases column names only): each output district is a district cell of a
\* given row, and the scenario yields the single row {district: "Agra", month:
\* 2024-01-01, allocation: 1000, distribution: 700, prgi: 0.30}.
C4_DistrictKept ==
    PrgiDone =>
        /\ \A r \in prgi_out :
              /\ InColumns(DistNameCol(GivenCols), GivenCols)
              /\ \E g \in GivenStateRows : g[ColIndex(GivenCols, DistNameCol(GivenCols))] = r.district
        /\ ScenarioGiven =>
              /\ prgi_out = {ScenarioRow("Agra")}
              /\ \A r \in prgi_out : QEq(r.prgi, Quot(30, 100))

C4_Witness == PrgiDone /\ ScenarioGiven /\ prgi_out # {}

\* the positions of the given rows that belong to the target state
GivenStateIdx ==
    IF StateCol(GivenCols) = None THEN DOMAIN pds_given.rows
    ELSE {i \in DOMAIN pds_given.rows :
            StateMask(pds_given.rows[i][ColIndex(GivenCols, StateCol(GivenCols))])}

\* the given target-state rows of one (month, district) group
GroupMembers(month, district) ==
    {i \in GivenStateIdx :
        /\ ToDatetime(pds_given.rows[i][ColIndex(GivenCols, "month")]) = month
        /\ pds_given.rows[i][ColIndex(GivenCols, DistNameCol(GivenCols))] = district}

\* the sum, over the rows at positions M, of the cells under the columns named in
\* qcols, a missing or non-numeric cell counting as zero
RECURSIVE CellSum(_, _)
CellSum(M, qcols) ==
    IF M = {} \/ qcols = <<>> THEN 0
    ELSE LET i == CHOOSE j \in M : TRUE
             RECURSIVE Across(_)
             Across(k) == IF k > Len(qcols) THEN 0
                          ELSE ToNumeric(pds_given.rows[i][ColIndex(GivenCols, qcols[k])]) + Across(k + 1)
         IN  Across(1) + CellSum(M \ {i}, qcols)

\* C18: every output row carries the group's sums: allocation is the sum over all
\* target-state rows of the (month, district) group of all selected allocation
\* columns, distribution likewise, a missing or non-numeric cell counting as
\* zero; prgi is 1 - distribution / allocation of those sums, clipped to [0, 1].
\* A row whose own allocation is zero still adds its distribution to the group.
C18_GroupSums ==
    PrgiDone =>
        \A r \in prgi_out :
            LET M == GroupMembers(r.month, r.district)
                alloc == CellSum(M, AllocCols(GivenCols))
                dist == CellSum(M, DistCols(GivenCols))
            IN  /\ M # {}
                /\ r.allocation = alloc
                /\ r.distribution = dist
                /\ IF dist >= alloc THEN r.prgi[1] = 0
                   ELSE IF dist <= 0 THEN r.prgi[1] = r.prgi[2]
                   ELSE QEq(r.prgi, Quot(alloc - dist, alloc))

\* a group of two rows, one of which has allocation zero and distribution 700: the
\* output row's distribution counts both rows
C18_Witness ==
    /\ PrgiDone
    /\ \E r \in prgi_out :
         LET M == GroupMembers(r.month, r.district)
         IN  /\ Cardinality(M) = 2
             /\ \E i \in M :
                  /\ CellSum({i}, AllocCols(GivenCols)) = 0
                  /\ CellSum({i}, DistCols(GivenCols)) = 700
             /\ r.allocation = 1000
             /\ r.distribution = 1400

\* a row with two allocation columns filled and one cell that is not a number
C18_WitnessSeveralColumns ==
    /\ PrgiDone
    /\ pds_given.columns = SchemaFull
    /\ \E r \in prgi_out : r.allocation = 1300
    /\ \E i \in GivenStateIdx : \E k \in DOMAIN GivenCols : pds_given.rows[i][k] = "n/a"


\* C19: the output has at most one row per (district, calendar month) and every
\* output month is the first day of its calendar month: rows of one district dated
\* on different days of one calendar month are aggregated into one output row.
C19_OneRowPerCalendarMonth ==
    PrgiDone =>
        /\ \A r \in prgi_out : r.month[3] = 1
        /\ \A r1, r2 \in prgi_out :
             (r1.district = r2.district /\ r1.month[1] = r2.month[1] /\ r1.month[2] = r2.month[2])
                => r1 = r2

\* the number a year or month cell spells
NumberIn(cell) ==
    CASE cell = "1" -> 1
      [] cell = "2" -> 2
      [] cell = "2023" -> 2023
      [] cell = "2024" -> 2024
      [] OTHER -> 0

\* the first-of-month date of a given row's year and month, NaT when its month is missing
YearMonthDate(i) ==
    LET y == NumberIn(pds_given.rows[i][ColIndex(GivenCols, "year")])
        mo == NumberIn(pds_given.rows[i][ColIndex(GivenCols, "month")])
    IN  IF mo = 0 \/ y = 0 THEN NaT ELSE <<y, mo, 1>>

\* the given table has separate year and month columns
GivenYearMonth == pds_given.columns = SchemaYearMonth

\* C20: with separate year and month columns each row's month is the first-of-month
\* date of the row's year and month, and a row whose month cannot be parsed
\* contributes to no group: the output months are exactly the first-of-month dates
\* of the target-state rows whose group has a positive allocation.
C20_YearMonthCombined ==
    (PrgiDone /\ GivenYearMonth) =>
        /\ \A r \in prgi_out :
             \E i \in GivenStateIdx :
                /\ YearMonthDate(i) # NaT
                /\ r.month = YearMonthDate(i)
                /\ r.district = pds_given.rows[i][ColIndex(GivenCols, DistNameCol(GivenCols))]
        /\ \A i \in GivenStateIdx :
             (YearMonthDate(i) # NaT /\ CellSum({i}, AllocCols(GivenCols)) > 0)
                => \E r \in prgi_out : r.month = YearMonthDate(i)

\* the columns the claim selects: the strict match when it finds a column, else the
\* loose match, for each quantity on its own
PreferTotal(strict, loose) == IF strict # <<>> THEN strict ELSE loose

\* C21: the allocation columns are those containing "alloc" and "total" when one
\* exists, otherwise all containing "alloc"; the distribution columns likewise with
\* "distrib"; neither choice depends on the other quantity's columns.  Every output
\* row carries the sums over the columns chosen that way.
C21_IndependentSelection ==
    PrgiDone =>
        \A r \in prgi_out :
            LET M == GroupMembers(r.month, r.district)
            IN  /\ r.allocation = CellSum(M, PreferTotal(AllocColsStrict(GivenCols), AllocColsLoose(GivenCols)))
                /\ r.distribution = CellSum(M, PreferTotal(DistColsStrict(GivenCols), DistColsLoose(GivenCols)))

\* C22: compute_prgi leaves its input as it was: after the call the caller's table
\* has the column names, the columns and the cells it had before the call.
C22_InputUnchanged ==
    PrgiDone =>
        /\ pds_columns = pds_given.columns
        /\ pds_rows = pds_given.rows

(***************************************************************************)
(* Risk ranker: get_top_high_risk_districts (src/src/prgi.py).             *)
(* A PRGI table is a set of records [district, month, prgi], one per       *)
(* (district, month) as compute_prgi's groupby leaves it; months are       *)
(* numbered in calendar order and prgi is in hundredths.                   *)
(***************************************************************************)
NaN == "NaN"

\* sorted(prgi_df["month"].unique())
RECURSIVE SortedAsc(_)
SortedAsc(S) ==
    IF S = {} THEN <<>>
    ELSE LET lo == CHOOSE x \in S : \A y \in S : x <= y
         IN  <<lo>> \o SortedAsc(S \ {lo})

AvailableMonths(t) == SortedAsc({r.month : r \in t})

\* available_months[-3:]
AllMonths(months) == months
LastThree(months) ==
    IF Len(months) <= 3 THEN months ELSE SubSeq(months, Len(months) - 2, Len(months))

\* recent_df = prgi_df[prgi_df["month"].isin(last_3_months)].copy()
RecentRows(t) == {r \in t : r.month \in Range(LastThree(AvailableMonths(t)))}

\* the districts of a table in the order groupby("district") lists them (sorted keys)
RECURSIVE DistrictsSorted(_)
DistrictsSorted(D) ==
    IF D = {} THEN <<>>
    ELSE LET lo == CHOOSE x \in D : \A y \in D : StrRank(x) <= StrRank(y)
         IN  <<lo>> \o DistrictsSorted(D \ {lo})

\* recent_df.groupby("district")["prgi"].mean() for one district
MeanPrgi(rows) ==
    Quot(SumOver([r \in rows |-> r.prgi], rows), Cardinality(rows))

\* district_risk: one row per district of recent_df, in key order
DistrictRisk(t) ==
    LET recent == RecentRows(t)
        ds == DistrictsSorted({r.district : r \in recent})
    IN  [i \in DOMAIN ds |->
            [district |-> ds[i], avg_prgi |-> MeanPrgi({r \in recent : r.district = ds[i]})]]

\* latest_df: the rows of the most recent month
LatestRows(t) ==
    LET months == AvailableMonths(t) IN {r \in t : r.month = months[Len(months)]}

\* an inner merge: the rows of the left table that have a match on the right
MergeInner(risk, latest) ==
    LET kept == SelectSeq(risk, LAMBDA x : \E r \in latest : r.district = x.district)
    IN  [i \in DOMAIN kept |->
            [district |-> kept[i].district, avg_prgi |-> kept[i].avg_prgi,
             latest_prgi |-> (CHOOSE r \in latest : r.district = kept[i].district).prgi]]

\* pd.merge(district_risk, latest_df, on="district", how="left"): rows in left order, one
\* per match on the right, latest_prgi NaN where the right has no match
MergeLeft(risk, latest) ==
    [i \in DOMAIN risk |->
        [district |-> risk[i].district, avg_prgi |-> risk[i].avg_prgi,
         latest_prgi |-> IF \E r \in latest : r.district = risk[i].district
                         THEN (CHOOSE r \in latest : r.district = risk[i].district).prgi
                         ELSE NaN]]

\* sort_values("avg_prgi", ascending=False): rows of equal avg_prgi keep their order
RECURSIVE InsertAscending(_, _)
InsertAscending(sorted, x) ==
    IF sorted = <<>> THEN <<x>>
    ELSE IF QLeq(Head(sorted).avg_prgi, x.avg_prgi)
         THEN <<Head(sorted)>> \o InsertAscending(Tail(sorted), x)
         ELSE <<x>> \o sorted

RECURSIVE InsertDescending(_, _)
InsertDescending(sorted, x) ==
    IF sorted = <<>> THEN <<x>>
    ELSE IF QLeq(x.avg_prgi, Head(sorted).avg_prgi)
         THEN <<Head(sorted)>> \o InsertDescending(Tail(sorted), x)
         ELSE <<x>> \o sorted

RECURSIVE SortByAvgDescending(_)
SortByAvgDescending(rows) ==
    IF rows = <<>> THEN <<>>
    ELSE InsertDescending(SortByAvgDescending(SubSeq(rows, 1, Len(rows) - 1)), rows[Len(rows)])

\* DataFrame.head(n), n >= 0
HeadN(rows, n) == IF n >= Len(rows) THEN rows ELSE SubSeq(rows, 1, n)

\* what the call leaves of the caller's prgi_df: the filter works on a copy
DropOldRowsInPlace(t) == RecentRows(t)
CallerTableAfterRank(t) == t

\* get_top_high_risk_districts(prgi_df, n): [result, df]
get_top_high_risk_districts(t, n) ==
    IF t = {} THEN [result |-> <<>>, df |-> t]
    ELSE [result |-> HeadN(SortByAvgDescending(MergeLeft(DistrictRisk(t), LatestRows(t))), n),
          df |-> CallerTableAfterRank(t)]

(***************************************************************************)
(* The PRGI tables the ranker is given: at most MaxRecords records over    *)
(* five months and two districts, and n in 0..MaxN.                        *)
(***************************************************************************)
MaxRecords == 5
MaxN == 2

RankMonths == 1..5

RankCells ==
    {[district |-> "Agra", month |-> m, prgi |-> v] : m \in RankMonths, v \in {10, 30}}
    \cup {[district |-> "Kanpur", month |-> m, prgi |-> 20] : m \in RankMonths}

RankKeys == {<<d, m>> : d \in {"Agra", "Kanpur"}, m \in RankMonths}

\* the tables over the key set K with at most k records
RECURSIVE RankTablesOver(_, _)
RankTablesOver(K, k) ==
    IF K = {} \/ k = 0 THEN {{}}
    ELSE LET key == CHOOSE x \in K : TRUE
             rest == K \ {key}
         IN  RankTablesOver(rest, k)
             \cup UNION {{T \cup {c} : T \in RankTablesOver(rest, k - 1)} :
                         c \in {x \in RankCells : <<x.district, x.month>> = key}}

RankTables == RankTablesOver(RankKeys, MaxRecords)

InitRank ==
    /\ pc = "rank"
    /\ rank_table \in RankTables
    /\ rank_n = 0
    /\ rank_seen = <<>>
    /\ rank_results = <<>>
    /\ PrgiIdle /\ SpikeIdle /\ PeerIdle /\ AnomIdle /\ LoaderIdle /\ DashIdle

\* one call get_top_high_risk_districts(prgi_df, n) by the caller that holds prgi_df
RankCall(n) ==
    LET o == get_top_high_risk_districts(rank_table, n)
    IN  /\ rank_n' = n
        /\ rank_seen' = Append(rank_seen, rank_table)
        /\ rank_results' = Append(rank_results, o.result)
        /\ rank_table' = o.df
        /\ UNCHANGED <<dashVars, anomVars, loaderVars, prgiVars, spikeVars, peerVars>>

\* high_risk_df = get_top_high_risk_districts(prgi_df, n=top_n)
RankFirst ==
    /\ pc = "rank"
    /\ \E n \in 0..MaxN : RankCall(n)
    /\ pc' = "rank_once"

\* the same call again, on the same prgi_df object with the same n
RankAgain ==
    /\ pc = "rank_once"
    /\ RankCall(rank_n)
    /\ pc' = "rank_twice"

NextRank == RankFirst \/ RankAgain

SpecRank == InitRank /\ [][NextRank]_vars

(***************************************************************************)
(* Claims about get_top_high_risk_districts (checked under SpecRank).      *)
(***************************************************************************)
\* the last 3 distinct months of a table, stated without sorting: the months that
\* have fewer than 3 distinct months after them
WindowMonths(t) ==
    {m \in {r.month : r \in t} : Cardinality({k \in {r.month : r \in t} : k > m}) < 3}

WindowRows(t, d) == {r \in t : r.district = d /\ r.month \in WindowMonths(t)}

ResultDistricts(res) == {res[i].district : i \in DOMAIN res}

\* C5: avg_prgi of a district is the mean of its PRGI over only the last 3 distinct
\* months of the whole table (all months if fewer than 3 exist); a district with no
\* record in those months does not appear in the result.
C5_RankWindow ==
    \A c \in DOMAIN rank_results :
        \A i \in DOMAIN rank_results[c] :
            LET row == rank_results[c][i]
                own == WindowRows(rank_seen[c], row.district)
            IN  /\ own # {}
                /\ row.avg_prgi[2] = Cardinality(own)
                /\ row.avg_prgi[1] = SumOver([r \in own |-> r.prgi], own)

\* a table with exactly 5 distinct months, a listed district whose older records would
\* change its mean, and a district of the table that is left out although n rows were
\* not reached
C5_Witness ==
    /\ Len(rank_results) >= 1
    /\ Cardinality({r.month : r \in rank_seen[1]}) = 5
    /\ Len(rank_results[1]) < rank_n
    /\ \E r \in rank_seen[1] : r.district \notin ResultDistricts(rank_results[1])
    /\ \E i \in DOMAIN rank_results[1] :
          LET all == {r \in rank_seen[1] : r.district = rank_results[1][i].district}
          IN  ~QEq(rank_results[1][i].avg_prgi, MeanPrgi(all))

\* C6: the result has exactly min(n, number of districts in the window) rows, one per
\* district, in non-increasing order of avg_prgi, and no district left out has an
\* avg_prgi strictly greater than an included one.
C6_TopN ==
    \A c \in DOMAIN rank_results :
        LET res == rank_results[c]
            t == rank_seen[c]
            inWindow == {d \in {r.district : r \in t} : WindowRows(t, d) # {}}
            count == Cardinality(inWindow)
        IN  /\ Len(res) = (IF rank_n < count THEN rank_n ELSE count)
            /\ \A i, j \in DOMAIN res : i # j => res[i].district # res[j].district
            /\ ResultDistricts(res) \subseteq inWindow
            /\ \A i, j \in DOMAIN res : i < j => QLeq(res[j].avg_prgi, res[i].avg_prgi)
            /\ \A d \in inWindow \ ResultDistricts(res) :
                  \A i \in DOMAIN res : QLeq(MeanPrgi(WindowRows(t, d)), res[i].avg_prgi)

\* a call that truncated: two districts in the window, n = 1, and the district that
\* sorts second by name is the one returned
C6_Witness ==
    /\ Len(rank_results) >= 1
    /\ rank_n = 1
    /\ Len(rank_results[1]) = 1
    /\ rank_results[1][1].district = "Kanpur"
    /\ WindowRows(rank_seen[1], "Agra") # {}

NewestRows(t, d) ==
    {r \in t : r.district = d /\ \A q \in t : q.month <= r.month}

\* C23: latest_prgi of a listed district is its PRGI in the single most recent month
\* of the whole table, and is missing for a district with records in the last-3-month
\* window but none in the most recent month; such a district is not dropped: the
\* result still has min(n, districts in the window) rows.
C23_LatestPrgi ==
    \A c \in DOMAIN rank_results :
        LET res == rank_results[c]
            t == rank_seen[c]
            count == Cardinality({d \in {r.district : r \in t} : WindowRows(t, d) # {}})
        IN  /\ Len(res) = (IF rank_n < count THEN rank_n ELSE count)
            /\ \A i \in DOMAIN res :
                 IF NewestRows(t, res[i].district) = {}
                 THEN res[i].latest_prgi = NaN
                 ELSE \A r \in NewestRows(t, res[i].district) : res[i].latest_prgi = r.prgi

\* a result listing a district without a record in the most recent month (its
\* latest_prgi is missing) next to a district that has one
C23_Witness ==
    /\ Len(rank_results) >= 1
    /\ Len(rank_results[1]) = 2
    /\ \E i \in DOMAIN rank_results[1] :
         /\ NewestRows(rank_seen[1], rank_results[1][i].district) = {}
         /\ rank_results[1][i].latest_prgi = NaN
    /\ \E i \in DOMAIN rank_results[1] :
         /\ NewestRows(rank_seen[1], rank_results[1][i].district) # {}
         /\ rank_results[1][i].latest_prgi = 30

(***************************************************************************)
(* Spike detector: detect_pgsm_spikes (src/src/validation/pgsm_validator.py)*)
(* A grievance table is a set of records [district_name, month,            *)
(* complaints], one per (district, month); months are numbered in          *)
(* calendar order.                                                         *)
(***************************************************************************)
\* PGSM_SPIKE_THRESHOLD = 1.5, as an exact quotient
PGSM_SPIKE_THRESHOLD == <<3, 2>>

MIN_HISTORICAL_MONTHS == 3

\* p * q
QTimes(p, q) == <<p[1] * q[1], p[2] * q[2]>>

\* result.sort_values(['district_name', 'month']) restricted to one district: its rows by month
RECURSIVE SeriesOf(_)
SeriesOf(rows) ==
    IF rows = {} THEN <<>>
    ELSE LET lo == CHOOSE x \in rows : \A y \in rows : x.month <= y.month
         IN  <<lo>> \o SeriesOf(rows \ {lo})

\* the positions x.rolling(window=MIN_HISTORICAL_MONTHS, min_periods=1) averages at position i
PriorWindow(len, i) ==
    {j \in 1..len : i - MIN_HISTORICAL_MONTHS <= j /\ j < i}
CenteredWindow(len, i) ==
    {j \in 1..len : i - 1 <= j /\ j <= i + 1}
RollingWindow(len, i) ==
    {j \in 1..len : i - MIN_HISTORICAL_MONTHS < j /\ j <= i}

\* .rolling(...).mean() at position i of a district's series
RollingMean(series, i) ==
    LET w == RollingWindow(Len(series), i)
    IN  Quot(SumOver([j \in w |-> series[j].complaints], w), Cardinality(w))

\* result['is_spike'] = result['complaints'] > result['spike_threshold']
AtLeastThreshold(complaints, threshold) == complaints * threshold[2] >= threshold[1]
ExceedsThreshold(complaints, threshold) == complaints * threshold[2] > threshold[1]

\* the rows of one district, with baseline, spike_threshold and is_spike
SpikeRows(series) ==
    [i \in DOMAIN series |->
        LET baseline == RollingMean(series, i)
            spike_threshold == QTimes(baseline, PGSM_SPIKE_THRESHOLD)
        IN  [district_name |-> series[i].district_name,
             month |-> series[i].month,
             complaints |-> series[i].complaints,
             baseline |-> baseline,
             spike_threshold |-> spike_threshold,
             is_spike |-> ExceedsThreshold(series[i].complaints, spike_threshold)]]

RECURSIVE ConcatByDistrict(_, _)
ConcatByDistrict(g, ds) ==
    IF ds = <<>> THEN <<>>
    ELSE SpikeRows(SeriesOf({r \in g : r.district_name = Head(ds)}))
         \o ConcatByDistrict(g, Tail(ds))

\* detect_pgsm_spikes(grievances): the table sorted by (district_name, month) with the
\* three added columns; a table without rows gives no rows
detect_pgsm_spikes(g) ==
    ConcatByDistrict(g, DistrictsSorted({r.district_name : r \in g}))

(***************************************************************************)
(* The grievance tables: at most MaxGrievances records over four months    *)
(* and two districts.  The caller detects, changes one record (sets its    *)
(* count, adds it or removes it) and detects again.                        *)
(***************************************************************************)
MaxGrievances == 4

SpikeMonths == 1..4
SpikeDistricts == {"Agra", "Kanpur"}
SpikeCounts == {10, 30}

SpikeKeys == {<<d, m>> : d \in SpikeDistricts, m \in SpikeMonths}

RECURSIVE GrievanceTablesOver(_, _)
GrievanceTablesOver(K, k) ==
    IF K = {} \/ k = 0 THEN {{}}
    ELSE LET key == CHOOSE x \in K : TRUE
             rest == K \ {key}
         IN  GrievanceTablesOver(rest, k)
             \cup UNION {{T \cup {[district_name |-> key[1], month |-> key[2], complaints |-> c]} :
                               T \in GrievanceTablesOver(rest, k - 1)} : c \in SpikeCounts}

InitSpike ==
    /\ pc = "spike"
    /\ grievances \in GrievanceTablesOver(SpikeKeys, MaxGrievances)
    /\ edits = {}
    /\ spikes = <<>>
    /\ spikes_prev = <<>>
    /\ edits_prev = {}
    /\ PrgiIdle /\ RankIdle /\ PeerIdle /\ AnomIdle /\ LoaderIdle /\ DashIdle

\* spikes = detect_pgsm_spikes(grievances)
DetectSpikes ==
    /\ pc \in {"spike", "spike_edited"}
    /\ spikes' = detect_pgsm_spikes(grievances)
    /\ spikes_prev' = spikes
    /\ edits_prev' = edits
    /\ edits' = {}
    /\ pc' = IF pc = "spike" THEN "spike_detected" ELSE "spike_redetected"
    /\ UNCHANGED <<dashVars, anomVars, loaderVars, grievances, prgiVars, rankVars, peerVars>>

WithoutKey(g, d, m) == {r \in g : ~(r.district_name = d /\ r.month = m)}

\* the data source changes: the record of (d, m) gets the count c (new or replaced)
SetGrievance ==
    /\ pc = "spike_detected"
    /\ \E d \in SpikeDistricts, m \in SpikeMonths, c \in SpikeCounts :
         /\ [district_name |-> d, month |-> m, complaints |-> c] \notin grievances
         /\ Cardinality(WithoutKey(grievances, d, m)) < MaxGrievances
         /\ grievances' = WithoutKey(grievances, d, m)
                            \cup {[district_name |-> d, month |-> m, complaints |-> c]}
         /\ edits' = edits \cup {<<d, m>>}
    /\ pc' = "spike_edited"
    /\ UNCHANGED <<dashVars, anomVars, loaderVars, spikes, spikes_prev, edits_prev, prgiVars, rankVars, peerVars>>

\* the data source changes: the record of (d, m) disappears
RemoveGrievance ==
    /\ pc = "spike_detected"
    /\ \E r \in grievances :
         /\ grievances' = grievances \ {r}
         /\ edits' = edits \cup {<<r.district_name, r.month>>}
    /\ pc' = "spike_edited"
    /\ UNCHANGED <<dashVars, anomVars, loaderVars, spikes, spikes_prev, edits_prev, prgiVars, rankVars, peerVars>>

NextSpike == DetectSpikes \/ SetGrievance \/ RemoveGrievance

SpecSpike == InitSpike /\ [][NextSpike]_vars

(***************************************************************************)
(* Complaint histories of one district, month after month, with counts on  *)
(* both sides of the spike conditions; the caller detects once.            *)
(***************************************************************************)
MaxHistory == 4

HistoryCounts == {0, 10, 20, 30, 31}

InitHistory ==
    /\ pc = "spike"
    /\ \E k \in 0..MaxHistory : \E f \in [1..k -> HistoryCounts] :
         grievances = {[district_name |-> "Agra", month |-> m, complaints |-> f[m]] : m \in 1..k}
    /\ edits = {}
    /\ spikes = <<>>
    /\ spikes_prev = <<>>
    /\ edits_prev = {}
    /\ PrgiIdle /\ RankIdle /\ PeerIdle /\ AnomIdle /\ LoaderIdle /\ DashIdle

NextHistory == DetectSpikes

SpecHistory == InitHistory /\ [][NextHistory]_vars

\* the returned rows of the district of row i that are dated before it
EarlierRows(i) ==
    {j \in DOMAIN spikes : /\ spikes[j].district_name = spikes[i].district_name
                           /\ spikes[j].month < spikes[i].month}

\* the count of the k-th record before row i in its district (k = 1: the one just before)
CountBefore(i, k) ==
    spikes[CHOOSE j \in EarlierRows(i) :
              Cardinality({l \in EarlierRows(i) : spikes[l].month >= spikes[j].month}) = k].complaints

C30_WitnessOnBounds ==
    /\ Len(spikes) = 4
    /\ spikes[1].complaints = 10
    /\ spikes[2].complaints = 30 /\ ~spikes[2].is_spike
    /\ spikes[3].complaints = 20 /\ ~spikes[3].is_spike
    /\ spikes[4].complaints = 31 /\ ~spikes[4].is_spike

(***************************************************************************)
(* Claims about detect_pgsm_spikes (checked under SpecSpike).              *)
(***************************************************************************)
SpikesCurrent == pc \in {"spike_detected", "spike_redetected"}

\* the up to 3 most recent records of district d with month <= n
RecentUpTo(g, d, n) ==
    {r \in g : /\ r.district_name = d
               /\ r.month <= n
               /\ Cardinality({q \in g : q.district_name = d /\ r.month < q.month /\ q.month <= n}) < 3}

C9_StrictThreshold ==
    SpikesCurrent =>
        \A i \in DOMAIN spikes :
            /\ 2 * spikes[i].spike_threshold[1] * spikes[i].baseline[2]
                  = 3 * spikes[i].baseline[1] * spikes[i].spike_threshold[2]
            /\ spikes[i].is_spike <=>
                  (2 * spikes[i].complaints * spikes[i].baseline[2] > 3 * spikes[i].baseline[1])

\* a count equal to its threshold (30 after 10: baseline 20, threshold 30) that is not
\* flagged, in a table whose earlier detection flagged a count above its threshold
C9_Witness ==
    /\ pc = "spike_redetected"
    /\ \E i \in DOMAIN spikes :
         /\ 2 * spikes[i].complaints * spikes[i].baseline[2] = 3 * spikes[i].baseline[1]
         /\ ~spikes[i].is_spike
    /\ \E j \in DOMAIN spikes_prev : spikes_prev[j].is_spike


(***************************************************************************)
(* PeerLens (src/src/intelligence/peerlens.py).                            *)
(* prgi_df is a set of records [district, month, prgi, allocation] (prgi   *)
(* in hundredths, allocation a float), population_df a set of             *)
(* [district, population], grievance_df a set of [receipts, disposal].     *)
(* A float is an exact quotient or NaN.                                    *)
(***************************************************************************)
\* str.title()
Title(s) ==
    CASE s = "agra" -> "Agra"
      [] s = "kanpur" -> "Kanpur"
      [] s = "lucknow" -> "Lucknow"
      [] s = "meerut" -> "Meerut"
      [] s = "jhansi" -> "Jhansi"
      [] OTHER -> s

\* np.nan, kept apart from every quotient
nan == <<0, 0>>

IsNaN(x) == x = nan

RECURSIVE Gcd(_, _)
Gcd(a, b) == IF b = 0 THEN a ELSE Gcd(b, a % b)

\* a quotient in lowest terms with a positive denominator, so that equal floats are equal values
Lowest(p) ==
    LET n == IF p[2] < 0 THEN 0 - p[1] ELSE p[1]
        d == IF p[2] < 0 THEN 0 - p[2] ELSE p[2]
        g == Gcd(IF n < 0 THEN 0 - n ELSE n, d)
    IN  <<n \div g, d \div g>>

\* p / q for quotients, q > 0
QDiv(p, q) == Lowest(<<p[1] * q[2], p[2] * q[1]>>)

\* float > 0, False for NaN
Positive(x) == IF IsNaN(x) THEN FALSE ELSE x[1] > 0

GOOD_THRESHOLD == <<90, 100>>
BAD_THRESHOLD == <<110, 100>>

\* a table's rows as a sequence in district order (the order compute_prgi's groupby leaves)
RowsByDistrict(rows) ==
    LET ds == DistrictsSorted({r.district : r \in rows})
    IN  [i \in DOMAIN ds |-> CHOOSE r \in rows : r.district = ds[i]]

\* self.prgi_df[self.prgi_df['month'] == self.prgi_df['month'].max()]
LatestMonthRows(prgi) == {r \in prgi : \A q \in prgi : q.month <= r.month}

\* df.merge(pop_df, on='district', how='left'): the population of a normalized district
PopulationOf(pop, d) ==
    IF \E r \in pop : Strip(Lower(r.district)) = d
    THEN Lowest(Quot((CHOOSE r \in pop : Strip(Lower(r.district)) = d).population, 1))
    ELSE nan

\* lines 105-122: the state-wide resolution rate and the receipts spread over the rows
ResolutionRate(griev) ==
    LET total_receipts == SumOver([g \in griev |-> g.receipts], griev)
        total_disposal == SumOver([g \in griev |-> g.disposal], griev)
    IN  IF griev # {} /\ total_receipts > 0 THEN Lowest(Quot(total_disposal, total_receipts)) ELSE Quot(1, 2)

ReceiptsShare(griev, len) ==
    IF griev # {} /\ len > 0 THEN Lowest(Quot(SumOver([g \in griev |-> g.receipts], griev), len))
    ELSE Quot(0, 1)

\* np.where((population > 0) & (receipts >= 0), receipts / population, np.nan)
GrievanceDensity(receipts, population) ==
    IF Positive(population) /\ receipts[1] >= 0 THEN QDiv(receipts, population) ELSE nan

\* a column whose value grows with the row
ScaledByRow(value, i) == <<value[1] * i, value[2]>>
\* df['resolution_rate'] = <scalar>: every row gets the same value (line 119)
Broadcast(value, i) == value

\* PeerLens._prepare_dataframe: self.df, a sequence of rows
PrepareDataframe(prgi, pop, griev) ==
    IF prgi = {} THEN <<>>
    ELSE LET latest == RowsByDistrict(LatestMonthRows(prgi))
         IN  [i \in DOMAIN latest |->
                LET d == Strip(Lower(latest[i].district))
                    population == PopulationOf(pop, d)
                    receipts == ReceiptsShare(griev, Len(latest))
                IN  [district |-> d,
                     month |-> latest[i].month,
                     prgi |-> Lowest(Quot(latest[i].prgi, 100)),
                     allocation |-> latest[i].allocation,
                     population |-> population,
                     resolution_rate |-> Broadcast(ResolutionRate(griev), i),
                     receipts |-> receipts,
                     grievance_density |-> GrievanceDensity(receipts, population)]]

\* a tolerance test that leaves out the districts exactly on the tolerance
WithinStrict(x, y, tol) ==
    IF IsNaN(x) THEN FALSE
    ELSE LET diff == x[1] * y[2] - y[1] * x[2]
             absdiff == IF diff < 0 THEN 0 - diff ELSE diff
         IN  absdiff * tol[2] < tol[1] * x[2] * y[1]

\* abs(x - y) / y <= tol, False when x is NaN; y > 0
Within(x, y, tol) ==
    IF IsNaN(x) THEN FALSE
    ELSE LET diff == x[1] * y[2] - y[1] * x[2]
             absdiff == IF diff < 0 THEN 0 - diff ELSE diff
         IN  \* |x - y| / y = absdiff / (x[2] * y[1])
             absdiff * tol[2] <= tol[1] * x[2] * y[1]

\* PeerLens._select_peers(target): the peer rows, in df order
SelectPeers(df, target, cfg) ==
    LET pop == target.population
        alloc == target.allocation
    IN  IF ~Positive(pop) \/ ~Positive(alloc)
        THEN IF ~Positive(alloc) THEN <<>>
             ELSE SelectSeq(df, LAMBDA r : r.district # target.district
                                           /\ Within(r.allocation, alloc, cfg.beta))
        ELSE SelectSeq(df, LAMBDA r : /\ r.district # target.district
                                      /\ Within(r.population, pop, cfg.alpha)
                                      /\ Within(r.allocation, alloc, cfg.beta))

\* Series.median(): NaN skipped; the middle value, or the mean of the two middle ones
RECURSIVE QSorted(_)
QSorted(vals) ==
    IF vals = <<>> THEN <<>>
    ELSE LET i == CHOOSE k \in DOMAIN vals : \A j \in DOMAIN vals : QLeq(vals[k], vals[j])
         IN  <<vals[i]>> \o QSorted(SubSeq(vals, 1, i - 1) \o SubSeq(vals, i + 1, Len(vals)))

Median(vals) ==
    LET known == QSorted(SelectSeq(vals, LAMBDA v : ~IsNaN(v)))
        n == Len(known)
    IN  IF n = 0 THEN nan
        ELSE IF n % 2 = 1 THEN known[(n + 1) \div 2]
        ELSE LET a == known[n \div 2]
                 b == known[n \div 2 + 1]
             IN  Lowest(<<a[1] * b[2] + b[1] * a[2], 2 * a[2] * b[2]>>)

\* a division that reports 0 where it cannot divide
RelativeOrZero(value, peer_median) ==
    IF Positive(peer_median)
    THEN IF IsNaN(value) THEN <<0, 1>> ELSE QDiv(value, peer_median)
    ELSE <<0, 1>>

\* target_value / peer_median if peer_median > 0 else np.nan (lines 210-218)
Relative(value, peer_median) ==
    IF Positive(peer_median)
    THEN IF IsNaN(value) THEN nan ELSE QDiv(value, peer_median)
    ELSE nan

\* a classification that counts the two thresholds themselves as outside the band
ClassifyBoundsOutside(value, lower_is_better) ==
    IF IsNaN(value) THEN "Insufficient data"
    ELSE IF lower_is_better
         THEN IF QLeq(value, GOOD_THRESHOLD) THEN "Better than peers"
              ELSE IF QLeq(BAD_THRESHOLD, value) THEN "Worse than peers"
              ELSE "Comparable to peers"
         ELSE IF QLeq(BAD_THRESHOLD, value) THEN "Better than peers"
              ELSE IF QLeq(value, GOOD_THRESHOLD) THEN "Worse than peers"
              ELSE "Comparable to peers"

\* PeerLens._interpret.classify
Classify(value, lower_is_better) ==
    IF IsNaN(value) THEN "Insufficient data"
    ELSE IF lower_is_better
         THEN IF QLess(value, GOOD_THRESHOLD) THEN "Better than peers"
              ELSE IF QLess(BAD_THRESHOLD, value) THEN "Worse than peers"
              ELSE "Comparable to peers"
         ELSE IF QLess(BAD_THRESHOLD, value) THEN "Better than peers"
              ELSE IF QLess(value, GOOD_THRESHOLD) THEN "Worse than peers"
              ELSE "Comparable to peers"

\* PeerLens._interpret
Interpret(prgi_rel, grievance_rel, resolution_rel) ==
    [delivery_gap |-> Classify(prgi_rel, TRUE),
     grievance_pressure |-> Classify(grievance_rel, TRUE),
     resolution_capacity |-> Classify(resolution_rel, FALSE)]

\* _select_peers returns pd.DataFrame(), a frame without columns, for a target
\* whose allocation is missing or non-positive (lines 147-148)
PeersHaveColumns(target) == Positive(target.allocation)

\* a gate that lets every comparison through
NoGate(peer_count, min_peers) == FALSE
\* if peer_count < self.min_peers (line 196)
TooFewOrJustEnough(peer_count, min_peers) == peer_count <= min_peers
TooFewPeers(peer_count, min_peers) == peer_count < min_peers

\* lines 204-238: the result of a valid comparison
ValidResult(district, target, peers) ==
    LET peer_prgi == Median([i \in DOMAIN peers |-> peers[i].prgi])
        peer_grievance == Median([i \in DOMAIN peers |-> peers[i].grievance_density])
        peer_resolution == Median([i \in DOMAIN peers |-> peers[i].resolution_rate])
        prgi_rel == Relative(target.prgi, peer_prgi)
        grievance_rel == Relative(target.grievance_density, peer_grievance)
        resolution_rel == Relative(target.resolution_rate, peer_resolution)
    IN  [district |-> district,
         peer_count |-> Len(peers),
         comparison_valid |-> TRUE,
         prgi_relative |-> prgi_rel,
         grievance_relative |-> grievance_rel,
         resolution_relative |-> resolution_rel,
         peer_districts |-> [i \in DOMAIN peers |-> Title(peers[i].district)],
         interpretation |-> Interpret(prgi_rel, grievance_rel, resolution_rel)]

\* PeerLens.get_districts(): sorted(self.df["district"].unique().tolist())
get_districts(df) ==
    IF df = <<>> THEN <<>> ELSE DistrictsSorted({df[i].district : i \in DOMAIN df})

\* PeerLens.analyze_district(district)
analyze_district(df, cfg, district) ==
    IF df = <<>> THEN [error |-> "No data available"]
    ELSE LET normalized == Strip(Lower(district))
         IN  IF ~(\E i \in DOMAIN df : df[i].district = normalized)
             THEN [error |-> <<"District", district, "not found">>]
             ELSE LET target == df[CHOOSE i \in DOMAIN df :
                                      /\ df[i].district = normalized
                                      /\ \A j \in DOMAIN df : df[j].district = normalized => i <= j]
                      peers == SelectPeers(df, target, cfg)
                      peer_count == Len(peers)
                  IN  IF TooFewPeers(peer_count, cfg.min_peers)
                      THEN [district |-> district,
                            peer_count |-> peer_count,
                            comparison_valid |-> FALSE,
                            note |-> <<"Only", peer_count,
                                       "comparable peers found. Adjust tolerances or reduce minimum peers.">>]
                      ELSE IF ~PeersHaveColumns(target)
                      THEN [exception |-> "KeyError: 'prgi'"]   \* peers["prgi"], line 205
                      ELSE ValidResult(district, target, peers)

(***************************************************************************)
(* The PeerLens inputs.  Four districts may appear in the latest month,    *)
(* each with an allocation and, when the population file lists it, a       *)
(* population; Jhansi may appear in the latest month or only in an older   *)
(* one.                                                                    *)
(***************************************************************************)
MaxMinPeers == 3

PeerNames == <<"Agra", "Kanpur", "Lucknow", "Meerut">>
PeerPrgi(d) ==
    CASE d = "Agra" -> 40
      [] d = "Kanpur" -> 20
      [] d = "Lucknow" -> 20
      [] d = "Meerut" -> 30
      [] OTHER -> 20
PeerAllocations == {<<1000, 1>>, <<2000, 1>>}
PeerPopulations == {100}

\* what the inputs hold about one district: nothing, or an allocation and perhaps a population
PeerOptions ==
    {[present |-> FALSE, allocation |-> <<0, 1>>, population |-> 0]}
    \cup [present : {TRUE}, allocation : PeerAllocations, population : PeerPopulations \cup {0}]

\* Jhansi's only record: none (0), in an older month, or in the latest month
JhansiMonths == {0, 1, 2}
LatestMonth == CHOOSE m \in JhansiMonths : \A k \in JhansiMonths : k <= m

\* the districts with the PRGI each has by default, in every combination of PeerOptions
StructureInputs ==
    {[i \in DOMAIN PeerNames |->
        [present |-> c[i].present, allocation |-> c[i].allocation,
         population |-> c[i].population, prgi |-> PeerPrgi(PeerNames[i])]] :
            c \in [DOMAIN PeerNames -> PeerOptions]}

\* four districts alike in allocation and population, with PRGI values that put the
\* ratio of Agra to its peers below, on, between and above the two thresholds
PeerPrgiChoices ==
    {<<a, k, l, 30>> : a \in {0, 10, 18, 20, 22, 40}, k \in {0, 20}, l \in {0, 20}}

ValueInputs ==
    {[i \in DOMAIN PeerNames |->
        [present |-> TRUE, allocation |-> <<1000, 1>>, population |-> 100, prgi |-> p[i]]] :
            p \in PeerPrgiChoices}

\* Agra and Kanpur with allocations and populations on both sides of the 15 %
\* tolerances, missing (nan allocation, population 0 = not in the population
\* file) and non-positive; Lucknow and Meerut stay at 1000 and 100
SimilarityInputs ==
    {[i \in DOMAIN PeerNames |->
        [present |-> TRUE,
         allocation |-> IF i = 1 THEN a[1] ELSE IF i = 2 THEN k[1] ELSE <<1000, 1>>,
         population |-> IF i = 1 THEN a[2] ELSE IF i = 2 THEN k[2] ELSE 100,
         prgi |-> PeerPrgi(PeerNames[i])]] :
            a \in {<<1000, 1>>, <<0, 1>>, nan} \X {100, 0, 0 - 5},
            k \in {<<849, 1>>, <<850, 1>>, <<1000, 1>>, <<1150, 1>>, <<1151, 1>>, nan}
                   \X {0, 84, 85, 100, 115, 116}}

PeerInputs == StructureInputs \cup ValueInputs \cup SimilarityInputs

PrgiTableOf(choice, jhansi) ==
    {[district |-> PeerNames[i], month |-> LatestMonth,
      prgi |-> choice[i].prgi, allocation |-> choice[i].allocation] :
        i \in {k \in DOMAIN PeerNames : choice[k].present}}
    \cup (IF jhansi = 0 THEN {}
          ELSE {[district |-> "Jhansi", month |-> jhansi, prgi |-> 20, allocation |-> <<1000, 1>>]})

PopulationTableOf(choice, jhansi) ==
    {[district |-> Lower(PeerNames[i]), population |-> choice[i].population] :
        i \in {k \in DOMAIN PeerNames : choice[k].present /\ choice[k].population # 0}}
    \cup (IF jhansi = 0 THEN {} ELSE {[district |-> "jhansi", population |-> 100]})

GrievanceTables ==
    {{}, {[receipts |-> 200, disposal |-> 100]}, {[receipts |-> 200, disposal |-> 0]},
     {[receipts |-> 200, disposal |-> 300]}}

PeerQueries == {" Agra ", "Kanpur", "Jhansi", "Nowhere"}

\* the ratios a caller may hand to PeerLens._interpret
RatioSamples == {nan, <<0, 1>>, <<1, 2>>, <<9, 10>>, <<1, 1>>, <<11, 10>>, <<2, 1>>}

\* the caller holds the three tables of an engine to build, or is about to call the
\* classmethod PeerLens._interpret, which needs no engine
InitPeer ==
    /\ PrgiIdle
    /\ RankIdle
    /\ SpikeIdle
    /\ AnomIdle
    /\ LoaderIdle
    /\ DashIdle
    /\ \/ /\ pc = "peer"
          /\ \E choice \in PeerInputs, jhansi \in JhansiMonths :
               /\ prgi_df = PrgiTableOf(choice, jhansi)
               /\ population_df = PopulationTableOf(choice, jhansi)
          /\ grievance_df \in GrievanceTables
       \/ /\ pc = "interpret"
          /\ prgi_df = {}
          /\ population_df = {}
          /\ grievance_df = {}
    /\ peer_cfg = [alpha |-> <<0, 1>>, beta |-> <<0, 1>>, min_peers |-> 0]
    /\ peer_df = <<>>
    /\ peer_query = ""
    /\ peer_result = [error |-> "not called"]

\* PeerLens._interpret(prgi_rel, grievance_rel, resolution_rel)
InterpretCall ==
    /\ pc = "interpret"
    /\ \E prgi_rel \in RatioSamples, grievance_rel \in RatioSamples, resolution_rel \in RatioSamples :
         /\ peer_query' = <<prgi_rel, grievance_rel, resolution_rel>>
         /\ peer_result' = Interpret(prgi_rel, grievance_rel, resolution_rel)
    /\ pc' = "interpreted"
    /\ UNCHANGED <<dashVars, anomVars, loaderVars, prgiVars, rankVars, spikeVars, prgi_df, population_df, grievance_df,
                   peer_cfg, peer_df>>

\* PeerLens(prgi_df, population_df, grievance_df, min_peers=...): alpha and beta default
Construct ==
    /\ pc = "peer"
    /\ \E min_peers \in 1..MaxMinPeers :
         peer_cfg' = [alpha |-> <<15, 100>>, beta |-> <<15, 100>>, min_peers |-> min_peers]
    /\ peer_df' = PrepareDataframe(prgi_df, population_df, grievance_df)
    /\ pc' = "peer_ready"
    /\ UNCHANGED <<dashVars, anomVars, loaderVars, prgiVars, rankVars, spikeVars, prgi_df, population_df, grievance_df,
                   peer_query, peer_result>>

\* lens.analyze_district(district)
Analyze ==
    /\ pc = "peer_ready"
    /\ \E district \in PeerQueries :
         /\ peer_query' = district
         /\ peer_result' = analyze_district(peer_df, peer_cfg, district)
    /\ pc' = "peer_answered"
    /\ UNCHANGED <<dashVars, anomVars, loaderVars, prgiVars, rankVars, spikeVars, prgi_df, population_df, grievance_df,
                   peer_cfg, peer_df>>

NextPeer == Construct \/ Analyze \/ InterpretCall

SpecPeer == InitPeer /\ [][NextPeer]_vars

(***************************************************************************)
(* Claims about PeerLens                                                   *)
(***************************************************************************)
PeerAnswered == pc = "peer_answered"

\* the call found its district in the prepared table
PeerFound == PeerAnswered /\ "error" \notin DOMAIN peer_result

\* the prepared row of the district asked about
QueriedRow ==
    peer_df[CHOOSE i \in DOMAIN peer_df : peer_df[i].district = Strip(Lower(peer_query))]

\* the districts other than the target that meet the similarity conditions
QualifyingPeers ==
    LET t == QueriedRow
    IN  {i \in DOMAIN peer_df :
           /\ peer_df[i].district # t.district
           /\ Positive(t.allocation)
           /\ Within(peer_df[i].allocation, t.allocation, peer_cfg.beta)
           /\ (Positive(t.population) => Within(peer_df[i].population, t.population, peer_cfg.alpha))}

RatioKeys == {"prgi_relative", "grievance_relative", "resolution_relative", "interpretation"}

\* C10: analyze_district declares the comparison valid exactly when the number
\* of qualifying peers is at least min_peers; the result always carries that
\* number; an invalid result carries a note and no ratios or interpretation,
\* a valid one carries them.
C10_ValidityGate ==
    PeerFound =>
        LET k == Cardinality(QualifyingPeers)
        IN  /\ peer_result.peer_count = k
            /\ peer_result.comparison_valid = (k >= peer_cfg.min_peers)
            /\ ~peer_result.comparison_valid =>
                   /\ "note" \in DOMAIN peer_result
                   /\ DOMAIN peer_result \cap RatioKeys = {}
            /\ peer_result.comparison_valid =>
                   /\ RatioKeys \subseteq DOMAIN peer_result
                   /\ "note" \notin DOMAIN peer_result

\* min_peers = 3 and exactly 3 qualifying peers: the comparison is valid
C10_Witness ==
    /\ PeerFound
    /\ peer_cfg.min_peers = 3
    /\ Cardinality(QualifyingPeers) = 3
    /\ peer_result.comparison_valid

\* min_peers = 3 and exactly 2 qualifying peers: the comparison is invalid
C10_WitnessTwoPeers ==
    /\ PeerFound
    /\ peer_cfg.min_peers = 3
    /\ Cardinality(QualifyingPeers) = 2
    /\ ~peer_result.comparison_valid
    /\ peer_result.peer_count = 2

\* the comparison of the district asked about was declared valid
PeerValid == PeerFound /\ peer_result.comparison_valid

\* the element at 0-based position k of the values f[i], i \in I, put in ascending order
ElementAt(f, I, k) ==
    CHOOSE v \in {f[i] : i \in I} :
        /\ Cardinality({i \in I : QLess(f[i], v)}) <= k
        /\ k < Cardinality({i \in I : QLeq(f[i], v)})

\* the median of the values f[i], i \in I (I not empty): the middle one, or the mean of the two middle ones
MedianOver(f, I) ==
    LET n == Cardinality(I)
        a == ElementAt(f, I, (n - 1) \div 2)
        b == ElementAt(f, I, n \div 2)
    IN  <<a[1] * b[2] + b[1] * a[2], 2 * a[2] * b[2]>>

\* the label the threshold rule gives a defined ratio
LabelOf(r, lower_is_better) ==
    IF QLeq(<<90, 100>>, r) /\ QLeq(r, <<110, 100>>) THEN "Comparable to peers"
    ELSE IF QLess(r, <<90, 100>>) = lower_is_better THEN "Better than peers"
    ELSE "Worse than peers"

LabelsAgree(prgi_rel, grievance_rel, resolution_rel, interpretation) ==
    /\ ~IsNaN(prgi_rel) => interpretation.delivery_gap = LabelOf(prgi_rel, TRUE)
    /\ ~IsNaN(grievance_rel) => interpretation.grievance_pressure = LabelOf(grievance_rel, TRUE)
    /\ ~IsNaN(resolution_rel) => interpretation.resolution_capacity = LabelOf(resolution_rel, FALSE)

\* C11: in a valid comparison prgi_relative is the target's PRGI divided by the
\* median PRGI of its peers (when that median is positive), and every defined
\* ratio is labelled by the thresholds: for delivery gap and grievance pressure
\* below 0.90 is "Better than peers" and above 1.10 "Worse than peers", for
\* resolution the two are swapped, and anything in [0.90, 1.10], bounds
\* included, is "Comparable to peers".  The same labels come out of a direct
\* call of _interpret.
C11_RatioAndLabels ==
    /\ PeerValid =>
         LET peer_median == MedianOver([i \in DOMAIN peer_df |-> peer_df[i].prgi], QualifyingPeers)
         IN  /\ peer_median[1] > 0 =>
                   /\ ~IsNaN(peer_result.prgi_relative)
                   /\ QEq(QTimes(peer_result.prgi_relative, peer_median), QueriedRow.prgi)
             /\ LabelsAgree(peer_result.prgi_relative, peer_result.grievance_relative,
                            peer_result.resolution_relative, peer_result.interpretation)
    /\ pc = "interpreted" =>
         LabelsAgree(peer_query[1], peer_query[2], peer_query[3], peer_result)

\* a target with PRGI 0.40 whose peers' median PRGI is 0.20: ratio 2, "Worse than peers"
C11_Witness ==
    /\ PeerValid
    /\ QueriedRow.prgi = <<2, 5>>
    /\ QEq(MedianOver([i \in DOMAIN peer_df |-> peer_df[i].prgi], QualifyingPeers), <<1, 5>>)
    /\ ~IsNaN(peer_result.prgi_relative)
    /\ peer_result.prgi_relative = <<2, 1>>
    /\ peer_result.interpretation.delivery_gap = "Worse than peers"

\* ratios on the two thresholds are comparable, whichever way the metric points
C11_WitnessOnThreshold ==
    /\ PeerValid
    /\ ~IsNaN(peer_result.prgi_relative)
    /\ peer_result.prgi_relative = <<9, 10>>
    /\ peer_result.interpretation.delivery_gap = "Comparable to peers"

C11_WitnessSwapped ==
    /\ pc = "interpreted"
    /\ ~IsNaN(peer_query[1]) /\ ~IsNaN(peer_query[3])
    /\ peer_query[1] = <<1, 2>> /\ peer_result.delivery_gap = "Better than peers"
    /\ peer_query[3] = <<1, 2>> /\ peer_result.resolution_capacity = "Worse than peers"

\* |x - y| <= tol * y for known x and y > 0, all exact quotients
RelDiffAtMost(x, y, tol) ==
    /\ ~IsNaN(x)
    /\ LET d == <<x[1] * y[2] - y[1] * x[2], x[2] * y[2]>>
           bound == QTimes(tol, y)
       IN  QLeq(d, bound) /\ QLeq(<<0 - d[1], d[2]>>, bound)

\* the peers the selection rule names for the target, as rows of the prepared table
ExpectedPeers ==
    LET t == QueriedRow
        others == {i \in DOMAIN peer_df : peer_df[i].district # t.district}
    IN  IF ~Positive(t.allocation) THEN {}
        ELSE IF Positive(t.population)
        THEN {i \in others : /\ RelDiffAtMost(peer_df[i].population, t.population, peer_cfg.alpha)
                             /\ RelDiffAtMost(peer_df[i].allocation, t.allocation, peer_cfg.beta)}
        ELSE {i \in others : RelDiffAtMost(peer_df[i].allocation, t.allocation, peer_cfg.beta)}

\* C15: the peers of a target with population P > 0 and allocation A > 0 are
\* exactly the other districts with |population - P| / P <= alpha and
\* |allocation - A| / A <= beta; with P missing or non-positive and A > 0,
\* exactly the other districts meeting the allocation condition; with A
\* missing or non-positive, none.  The target is never among them, nor is a
\* district of unknown population when P > 0.
C15_PeerSelection ==
    PeerFound =>
        /\ peer_result.peer_count = Cardinality(ExpectedPeers)
        /\ peer_result.comparison_valid =>
             /\ Range(peer_result.peer_districts) = {Title(peer_df[i].district) : i \in ExpectedPeers}
             /\ Len(peer_result.peer_districts) = Cardinality(ExpectedPeers)
             /\ Title(QueriedRow.district) \notin Range(peer_result.peer_districts)
             /\ Positive(QueriedRow.population) =>
                  \A i \in DOMAIN peer_df :
                     IsNaN(peer_df[i].population) =>
                        Title(peer_df[i].district) \notin Range(peer_result.peer_districts)

\* a target with P = 100 and A = 1000 whose peers include a district exactly on
\* both tolerances (population 115, allocation 850)
C15_Witness ==
    /\ PeerValid
    /\ peer_query = " Agra "
    /\ QueriedRow.population = <<100, 1>> /\ QueriedRow.allocation = <<1000, 1>>
    /\ \E i \in DOMAIN peer_df :
         /\ peer_df[i].district = "kanpur"
         /\ peer_df[i].population = <<115, 1>> /\ peer_df[i].allocation = <<850, 1>>
    /\ peer_result.peer_districts = <<"Kanpur", "Lucknow", "Meerut">>

\* a target without a population: allocation-only matching takes a district of unknown population
C15_WitnessNoPopulation ==
    /\ PeerValid
    /\ IsNaN(QueriedRow.population)
    /\ \E i \in ExpectedPeers : IsNaN(peer_df[i].population)

\* a target without a positive allocation has no peers
C15_WitnessNoAllocation ==
    /\ PeerFound
    /\ ~Positive(QueriedRow.allocation)
    /\ Len(peer_df) > 1
    /\ peer_result.peer_count = 0


\* the peers whose value of a metric is known
KnownPeers(f) == {i \in ExpectedPeers : ~IsNaN(f[i])}

\* the peer median of a metric is missing or zero, or the target's own value is missing
CannotDivide(f, target_value) ==
    \/ KnownPeers(f) = {}
    \/ MedianOver(f, KnownPeers(f))[1] = 0
    \/ IsNaN(target_value)

PrgiColumn == [i \in DOMAIN peer_df |-> peer_df[i].prgi]
DensityColumn == [i \in DOMAIN peer_df |-> peer_df[i].grievance_density]
ResolutionColumn == [i \in DOMAIN peer_df |-> peer_df[i].resolution_rate]

\* C16: in a valid comparison a ratio whose peer median is zero or missing, or
\* whose target value is missing, is reported as undefined (nan, which is
\* neither 0 nor infinity), and every undefined ratio is interpreted as
\* "Insufficient data"; _interpret called directly does the same.
C16_UndefinedRatios ==
    /\ PeerValid =>
         /\ CannotDivide(PrgiColumn, QueriedRow.prgi) => IsNaN(peer_result.prgi_relative)
         /\ CannotDivide(DensityColumn, QueriedRow.grievance_density) =>
                IsNaN(peer_result.grievance_relative)
         /\ CannotDivide(ResolutionColumn, QueriedRow.resolution_rate) =>
                IsNaN(peer_result.resolution_relative)
         /\ IsNaN(peer_result.prgi_relative) =>
                peer_result.interpretation.delivery_gap = "Insufficient data"
         /\ IsNaN(peer_result.grievance_relative) =>
                peer_result.interpretation.grievance_pressure = "Insufficient data"
         /\ IsNaN(peer_result.resolution_relative) =>
                peer_result.interpretation.resolution_capacity = "Insufficient data"
    /\ pc = "interpreted" =>
         /\ IsNaN(peer_query[1]) => peer_result.delivery_gap = "Insufficient data"
         /\ IsNaN(peer_query[2]) => peer_result.grievance_pressure = "Insufficient data"
         /\ IsNaN(peer_query[3]) => peer_result.resolution_capacity = "Insufficient data"

\* the peers' median PRGI is zero: prgi_relative is undefined and says so
C16_Witness ==
    /\ PeerValid
    /\ MedianOver(PrgiColumn, ExpectedPeers)[1] = 0
    /\ QueriedRow.prgi[1] > 0
    /\ IsNaN(peer_result.prgi_relative)
    /\ peer_result.interpretation.delivery_gap = "Insufficient data"

\* the target's own grievance density is missing while its peers' median is positive
C16_WitnessTargetMissing ==
    /\ PeerValid
    /\ IsNaN(QueriedRow.grievance_density)
    /\ KnownPeers(DensityColumn) # {}
    /\ MedianOver(DensityColumn, KnownPeers(DensityColumn))[1] > 0
    /\ IsNaN(peer_result.grievance_relative)

\* the state-wide resolution rate is zero
C16_WitnessZeroResolution ==
    /\ PeerValid
    /\ QueriedRow.resolution_rate = <<0, 1>>
    /\ IsNaN(peer_result.resolution_relative)
    /\ peer_result.interpretation.resolution_capacity = "Insufficient data"


\* C28: every district gets the one state-wide resolution rate, so in every valid
\* comparison resolution_relative is exactly 1 or undefined and resolution_capacity
\* is "Comparable to peers" or "Insufficient data", never "Better than peers" or
\* "Worse than peers", whatever the grievance, population and PRGI inputs.
C28_ResolutionTrivial ==
    PeerValid =>
        /\ \/ IsNaN(peer_result.resolution_relative)
           \/ peer_result.resolution_relative = <<1, 1>>
        /\ peer_result.interpretation.resolution_capacity
             \in {"Comparable to peers", "Insufficient data"}
        /\ \A i \in DOMAIN peer_df : peer_df[i].resolution_rate = peer_df[1].resolution_rate

\* a valid comparison on grievance data whose disposals exceed the receipts: the
\* district's delivery gap is worse than its peers', its resolution ratio is 1
C28_Witness ==
    /\ PeerValid
    /\ grievance_df = {[receipts |-> 200, disposal |-> 300]}
    /\ QueriedRow.resolution_rate = <<3, 2>>
    /\ peer_result.resolution_relative = <<1, 1>>
    /\ peer_result.interpretation.resolution_capacity = "Comparable to peers"
    /\ peer_result.interpretation.delivery_gap = "Worse than peers"

\* a valid comparison without grievance data: the default rate 0.5 on every row
C28_WitnessDefaultRate ==
    /\ PeerValid
    /\ grievance_df = {}
    /\ QueriedRow.resolution_rate = <<1, 2>>
    /\ peer_result.resolution_relative = <<1, 1>>

\* the districts of the PRGI table, as the engine spells them
PrgiDistricts == {Strip(Lower(r.district)) : r \in prgi_df}

\* C29: the engine prepares one record per district, taken from the most recent
\* month in which that district has a PRGI record: every district of the PRGI
\* table is listed by get_districts and can be analyzed, also when it has no
\* record in the latest month of the whole table.
C29_EveryDistrictPrepared ==
    (pc \in {"peer_ready", "peer_answered"}) =>
        /\ Range(get_districts(peer_df)) = PrgiDistricts
        /\ \A i \in DOMAIN peer_df :
             \A r \in prgi_df :
                Strip(Lower(r.district)) = peer_df[i].district => r.month <= peer_df[i].month
        /\ (PeerAnswered /\ Strip(Lower(peer_query)) \in PrgiDistricts) =>
              "error" \notin DOMAIN peer_result

ErrorKeys == {"error"}
InvalidKeys == {"district", "peer_count", "comparison_valid", "note"}
ValidKeys == {"district", "peer_count", "comparison_valid", "prgi_relative", "grievance_relative",
              "resolution_relative", "peer_districts", "interpretation"}

\* the district asked about, lower-cased and trimmed, is in the prepared table
QueryKnown == \E i \in DOMAIN peer_df : peer_df[i].district = Strip(Lower(peer_query))

\* C17: with min_peers >= 1 analyze_district raises nothing and returns one of
\* three shapes: an error (exactly when the engine holds no data or the
\* district, lower-cased and trimmed, is not in the prepared table); an invalid
\* result with peer_count, comparison_valid = false and a note; or a valid
\* result with peer_count, comparison_valid = true, the three ratios, as many
\* peer district names as peer_count, and an interpretation.
C17_ResultShapes ==
    (PeerAnswered /\ peer_cfg.min_peers >= 1) =>
        /\ "exception" \notin DOMAIN peer_result
        /\ DOMAIN peer_result \in {ErrorKeys, InvalidKeys, ValidKeys}
        /\ (DOMAIN peer_result = ErrorKeys) = (peer_df = <<>> \/ ~QueryKnown)
        /\ DOMAIN peer_result = InvalidKeys => peer_result.comparison_valid = FALSE
        /\ DOMAIN peer_result = ValidKeys =>
             /\ peer_result.comparison_valid = TRUE
             /\ Len(peer_result.peer_districts) = peer_result.peer_count
             /\ DOMAIN peer_result.interpretation
                  = {"delivery_gap", "grievance_pressure", "resolution_capacity"}

\* a district spelled with capitals and blanks is found; its target has no usable
\* allocation, so the result is the invalid shape with no peers
C17_Witness ==
    /\ PeerAnswered
    /\ peer_query = " Agra "
    /\ QueryKnown
    /\ ~Positive(QueriedRow.allocation)
    /\ DOMAIN peer_result = InvalidKeys
    /\ peer_result.peer_count = 0

\* an unknown district on an engine that holds data
C17_WitnessError ==
    /\ PeerAnswered
    /\ peer_df # <<>> /\ ~QueryKnown
    /\ DOMAIN peer_result = ErrorKeys

\* an engine without data
C17_WitnessNoData ==
    /\ PeerAnswered
    /\ peer_df = <<>>
    /\ peer_result = [error |-> "No data available"]


(***************************************************************************)
(* Anomaly detection (src/src/ml/anomaly_detector.py).                     *)
(* A cell is a float: an exact quotient or NaN.  A row is a function from  *)
(* the table's columns to cells.                                           *)
(***************************************************************************)
\* row.get(column, 0)
RowGet(row, column) == IF column \in DOMAIN row THEN row[column] ELSE <<0, 1>>

\* float comparisons: False whenever a side is NaN
FGreater(x, y) == IF IsNaN(x) \/ IsNaN(y) THEN FALSE ELSE QLess(y, x)
FGeq(x, y) == IF IsNaN(x) \/ IsNaN(y) THEN FALSE ELSE QLeq(y, x)
FEq(x, y) == IF IsNaN(x) \/ IsNaN(y) THEN FALSE ELSE QEq(x, y)

\* sep.join(parts)
RECURSIVE Join(_, _)
Join(sep, parts) ==
    IF parts = <<>> THEN ""
    ELSE IF Len(parts) = 1 THEN parts[1]
    ELSE parts[1] \o sep \o Join(sep, Tail(parts))

\* row.get('prgi', 0) >= 0.99
GapRuleStrict(row) == FGreater(RowGet(row, "prgi"), <<99, 100>>)
GapRule(row) == FGeq(RowGet(row, "prgi"), <<99, 100>>)

\* check_simple_anomalies(row): the reasons list, then its join
check_simple_anomalies(row) ==
    LET allocation == RowGet(row, "allocation")
        distribution == RowGet(row, "distribution")
        r1 == IF GapRule(row) THEN <<"100% delivery gap">> ELSE <<>>
        r2 == IF FGreater(allocation, <<0, 1>>) /\ FEq(distribution, <<0, 1>>)
              THEN <<"No distribution">> ELSE <<>>
        r3 == IF FGreater(allocation, <<1000000, 1>>) THEN <<"Unusually high allocation">> ELSE <<>>
        r4 == IF FGreater(<<0, 1>>, allocation) \/ FGreater(<<0, 1>>, distribution)
              THEN <<"Negative values">> ELSE <<>>
        r5 == IF FGreater(distribution, allocation)
              THEN <<"Distribution exceeds allocation">> ELSE <<>>
    IN  Join("; ", r1 \o r2 \o r3 \o r4 \o r5)

\* detect_simple_anomalies(df): the rows of the copy with the two new columns
detect_simple_anomalies(rows) ==
    [i \in DOMAIN rows |->
        LET simple_anomaly == check_simple_anomalies(rows[i])
        IN  [row |-> rows[i],
             simple_anomaly |-> simple_anomaly,
             is_simple_anomaly |-> simple_anomaly # ""]]

\* f"{prgi*100:.1f}"
FormatPercent(prgi) ==
    CASE QEq(prgi, <<1, 1>>) -> "100.0"
      [] QEq(prgi, <<99, 100>>) -> "99.0"
      [] QEq(prgi, <<98, 100>>) -> "98.0"
      [] QEq(prgi, <<3, 5>>) -> "60.0"
      [] QEq(prgi, <<1, 2>>) -> "50.0"
      [] OTHER -> "?"

\* a gap test that includes the bound
HighGapInclusive(prgi) == FGeq(prgi, <<1, 2>>)
\* if prgi > 0.5
HighGap(prgi) == FGreater(prgi, <<1, 2>>)

\* abs((prgi - rolling_mean) / rolling_std) > 2, for rolling_std > 0
ZScoreAboveTwo(prgi, rolling_mean, rolling_std) ==
    LET diff == prgi[1] * rolling_mean[2] - rolling_mean[1] * prgi[2]
        abs == IF diff >= 0 THEN diff ELSE 0 - diff
    IN  abs * rolling_std[2] > 2 * rolling_std[1] * prgi[2] * rolling_mean[2]

\* AnomalyDetector._explain_anomaly(row): row is a row of the copy of df, which has the
\* rolling columns only if the caller's table had them (_engineer_features puts its
\* rolling statistics in the features table, not in df)
explain_anomaly(row, is_anomaly) ==
    IF ~is_anomaly THEN ""
    ELSE LET prgi == RowGet(row, "prgi")
             r1 == IF FGeq(prgi, <<99, 100>>)
                   THEN <<"100% delivery gap (possible data error)">> ELSE <<>>
             r2 == IF FGreater(RowGet(row, "allocation"), <<0, 1>>)
                      /\ FEq(RowGet(row, "distribution"), <<0, 1>>)
                   THEN <<"Zero distribution despite allocation">> ELSE <<>>
             r3 == IF HighGap(prgi)
                   THEN <<"Unusually high gap (" \o FormatPercent(prgi) \o "%)">> ELSE <<>>
             r4 == IF "prgi_rolling_mean" \in DOMAIN row /\ "prgi_rolling_std" \in DOMAIN row
                   THEN IF ~IsNaN(row["prgi_rolling_std"]) /\ ~IsNaN(row["prgi_rolling_mean"])
                           /\ ~IsNaN(prgi) /\ row["prgi_rolling_std"][1] > 0
                           /\ ZScoreAboveTwo(prgi, row["prgi_rolling_mean"], row["prgi_rolling_std"])
                        THEN <<"Large deviation from trend (Z=?)">> ELSE <<>>
                   ELSE <<>>
             reasons == r1 \o r2 \o r3 \o r4
         IN  Join("; ", IF reasons = <<>> THEN <<"Statistical outlier (Isolation Forest)">>
                        ELSE reasons)

\* the columns _engineer_features reads without a guard (lines 50-52)
FeatureColumns == {"allocation", "distribution", "prgi"}

\* df['month_numeric'] = pd.to_datetime(df['month']).apply(lambda x: x.year * 12 + x.month)
\* (lines 59-65): the caller's table gains a column when it has a month column
EngineeredColumns(columns) ==
    IF "month" \in columns THEN columns \cup {"month_numeric"} ELSE columns

EngineeredRows(columns, rows) ==
    IF "month" \in columns
    THEN [i \in DOMAIN rows |->
            [c \in columns \cup {"month_numeric"} |->
                IF c = "month_numeric" THEN rows[i]["month"][1] * 12 + rows[i]["month"][2]
                ELSE rows[i][c]]]
    ELSE rows

\* self.feature_names = features.columns.tolist() (lines 47-84)
FeatureNames(columns) ==
    <<"allocation", "distribution", "prgi">>
    \o (IF "delivery_gap_pct" \in columns THEN <<"delivery_gap_pct">> ELSE <<>>)
    \o (IF "month" \in columns THEN <<"month_numeric">> ELSE <<>>)
    \o (IF "district_name" \in columns /\ "month" \in columns
        THEN <<"prgi_lag1", "prgi_lag2", "prgi_rolling_mean", "prgi_rolling_std">> ELSE <<>>)

\* the outcome of a method call: what it raised, the instance after it, the rows returned
CallOutcome(error, instance, result) ==
    [raised |-> error # "", error |-> error, detector |-> instance, result |-> result]

\* IsolationForest.fit accepts a contamination in (0, 0.5]
ContaminationValid(c) == c[1] > 0 /\ QLeq(c, <<1, 2>>)

\* a fit that keeps no model
DropModel(self, model) == self
\* self.model = IsolationForest(...); self.model.fit(X_scaled)
AssignModel(self, model) == [self EXCEPT !.model = model]

\* AnomalyDetector.fit(df)
fit(self, columns, rows) ==
    IF ~(FeatureColumns \subseteq columns) THEN CallOutcome("KeyError", self, <<>>)
    ELSE LET engineered == [self EXCEPT !.feature_names = FeatureNames(columns)]
         IN  IF rows = <<>> THEN CallOutcome("ValueError: 0 samples", engineered, <<>>)
             ELSE LET scaled == [engineered EXCEPT !.scaler_fitted = TRUE]
                      created == AssignModel(scaled, "unfitted")
                  IN  IF ~ContaminationValid(self.contamination)
                      THEN CallOutcome("InvalidParameterError", created, <<>>)
                      ELSE CallOutcome("", AssignModel(created, "fitted"), <<>>)

\* a guard that lets every detect through
NeverTrained(self) == FALSE
\* if self.model is None: raise ValueError("Model not trained. Call fit() first.")
NotTrained(self) == self.model = "None"

\* AnomalyDetector.detect(df); flags stands for the forest's predictions == -1
detect(self, columns, rows, flags) ==
    IF NotTrained(self) THEN CallOutcome("ValueError: Model not trained. Call fit() first.", self, <<>>)
    ELSE IF ~(FeatureColumns \subseteq columns) THEN CallOutcome("KeyError", self, <<>>)
    ELSE LET engineered == [self EXCEPT !.feature_names = FeatureNames(columns)]
         IN  IF ~self.scaler_fitted THEN CallOutcome("NotFittedError", engineered, <<>>)
             ELSE IF rows = <<>> THEN CallOutcome("ValueError: 0 samples", engineered, <<>>)
             ELSE IF self.model # "fitted" THEN CallOutcome("NotFittedError", engineered, <<>>)
             ELSE CallOutcome("", engineered,
                              [i \in DOMAIN rows |->
                                 [row |-> EngineeredRows(columns, rows)[i],
                                  is_anomaly |-> flags[i],
                                  anomaly_reason |-> explain_anomaly(EngineeredRows(columns, rows)[i],
                                                                     flags[i])]])

(***************************************************************************)
(* The tables given to anomaly detection and the calls made on them.       *)
(***************************************************************************)
MaxAnomRows == 1
MaxCalls == 3

\* the values a column may hold in the tables given to detect_simple_anomalies
AnomCells(column) ==
    CASE column = "prgi" -> {nan, <<98, 100>>, <<99, 100>>, <<1, 1>>}
      [] column = "allocation" ->
            {nan, <<0 - 100, 1>>, <<0, 1>>, <<1000, 1>>, <<1000000, 1>>, <<1000001, 1>>}
      [] column = "distribution" -> {nan, <<0 - 5, 1>>, <<0, 1>>, <<1000, 1>>, <<1200, 1>>}

\* the values a column may hold in the tables an AnomalyDetector is given
DetectorCells(column) ==
    CASE column = "prgi" -> {<<3, 5>>, <<99, 100>>}
      [] column = "allocation" -> {<<1000, 1>>}
      [] column = "distribution" -> {<<0, 1>>, <<1200, 1>>}

AllAnomCells == UNION {AnomCells(c) \cup DetectorCells(c) : c \in FeatureColumns}

\* the rows over a set of columns, each cell taken from cells(column)
AnomRowsOver(columns, wide) ==
    {row \in [columns -> AllAnomCells] :
        \A c \in columns : row[c] \in (IF wide THEN AnomCells(c) ELSE DetectorCells(c))}

InitAnomaly(wide) ==
    /\ pc = "anomaly"
    /\ PrgiIdle /\ RankIdle /\ SpikeIdle /\ PeerIdle /\ LoaderIdle /\ DashIdle
    /\ anom_columns \in SUBSET FeatureColumns
    /\ anom_rows \in SeqsUpTo(AnomRowsOver(anom_columns, wide), MaxAnomRows)
    /\ simple_out = <<>>
    /\ detector \in {[contamination |-> c, model |-> "None", scaler_fitted |-> FALSE,
                      feature_names |-> <<>>] : c \in {<<5, 100>>, <<7, 10>>}}
    /\ detector_log = <<>>
    /\ detect_out = <<>>

\* anomaly_df = detect_simple_anomalies(anomaly_df)
DetectSimple ==
    /\ pc = "anomaly"
    /\ Len(detector_log) < MaxCalls
    /\ simple_out' = detect_simple_anomalies(anom_rows)
    /\ detector_log' = Append(detector_log, [op |-> "detect_simple_anomalies", raised |-> FALSE, error |-> ""])
    /\ UNCHANGED <<dashVars, pc, prgiVars, rankVars, spikeVars, peerVars, loaderVars,
                   anom_columns, anom_rows, detector, detect_out>>

\* detector.fit(anomaly_df)
Fit ==
    /\ pc = "anomaly"
    /\ Len(detector_log) < MaxCalls
    /\ LET o == fit(detector, anom_columns, anom_rows)
       IN  /\ detector' = o.detector
           /\ detector_log' = Append(detector_log, [op |-> "fit", raised |-> o.raised, error |-> o.error])
    /\ IF FeatureColumns \subseteq anom_columns
       THEN /\ anom_columns' = EngineeredColumns(anom_columns)
            /\ anom_rows' = EngineeredRows(anom_columns, anom_rows)
       ELSE UNCHANGED <<anom_columns, anom_rows>>
    /\ UNCHANGED <<dashVars, pc, prgiVars, rankVars, spikeVars, peerVars, loaderVars,
                   simple_out, detect_out>>

\* anomaly_df = detector.detect(anomaly_df)
Detect ==
    /\ pc = "anomaly"
    /\ Len(detector_log) < MaxCalls
    /\ \E flags \in [DOMAIN anom_rows -> BOOLEAN] :
         LET o == detect(detector, anom_columns, anom_rows, flags)
         IN  /\ detector' = o.detector
             /\ detect_out' = IF o.raised THEN detect_out ELSE o.result
             /\ detector_log' = Append(detector_log, [op |-> "detect", raised |-> o.raised, error |-> o.error])
    /\ IF ~NotTrained(detector) /\ FeatureColumns \subseteq anom_columns
       THEN /\ anom_columns' = EngineeredColumns(anom_columns)
            /\ anom_rows' = EngineeredRows(anom_columns, anom_rows)
       ELSE UNCHANGED <<anom_columns, anom_rows>>
    /\ UNCHANGED <<dashVars, pc, prgiVars, rankVars, spikeVars, peerVars, loaderVars,
                   simple_out>>

InitSimple == InitAnomaly(TRUE)
NextSimple == DetectSimple
SpecSimple == InitSimple /\ [][NextSimple]_vars

InitDetector == InitAnomaly(FALSE)
NextDetector == Fit \/ Detect \/ DetectSimple
SpecDetector == InitDetector /\ [][NextDetector]_vars

(***************************************************************************)
(* The table the overview page gives the detector (pages/1_Overview.py,    *)
(* lines 403-414): compute_prgi's columns plus district_name, one record   *)
(* per (district, month), at most MaxTrendRows records.                    *)
(***************************************************************************)
MaxTrendRows == 3

TrendColumns == {"month", "district", "district_name", "allocation", "distribution", "prgi"}

TrendPrgi == {<<1, 10>>, <<1, 2>>, <<3, 5>>, <<99, 100>>}

\* the record of month i; the first record may belong to a second district and may
\* have no distribution
TrendRecords(i) ==
    {[c \in TrendColumns |->
        CASE c = "month" -> <<2024, i, 1>>
          [] c = "district" -> d
          [] c = "district_name" -> d
          [] c = "allocation" -> <<1000, 1>>
          [] c = "distribution" -> dist
          [] c = "prgi" -> p] :
     d \in (IF i = 1 THEN {"Agra", "Kanpur"} ELSE {"Agra"}),
     dist \in (IF i = 1 THEN {<<0, 1>>, <<1200, 1>>} ELSE {<<1200, 1>>}),
     p \in TrendPrgi}

RECURSIVE TrendTables(_)
TrendTables(k) ==
    IF k = 0 THEN {<<>>}
    ELSE {Append(t, r) : t \in TrendTables(k - 1), r \in TrendRecords(k)}

\* detector = AnomalyDetector(contamination=0.05) on the page's table
InitTrend ==
    /\ pc = "anomaly"
    /\ PrgiIdle /\ RankIdle /\ SpikeIdle /\ PeerIdle /\ LoaderIdle /\ DashIdle
    /\ anom_columns = TrendColumns
    /\ anom_rows \in UNION {TrendTables(k) : k \in 0..MaxTrendRows}
    /\ simple_out = <<>>
    /\ detector = [contamination |-> <<5, 100>>, model |-> "None", scaler_fitted |-> FALSE,
                   feature_names |-> <<>>]
    /\ detector_log = <<>>
    /\ detect_out = <<>>

NextTrend == Fit \/ Detect
SpecTrend == InitTrend /\ [][NextTrend]_vars

(***************************************************************************)
(* Claims about anomaly detection                                          *)
(***************************************************************************)
\* detect_simple_anomalies has been called on the table
SimpleCalled ==
    \E k \in DOMAIN detector_log : detector_log[k].op = "detect_simple_anomalies"

\* the five rules in their fixed order, each with the entry it contributes
RuleFires(k, row) ==
    LET prgi == RowGet(row, "prgi")
        allocation == RowGet(row, "allocation")
        distribution == RowGet(row, "distribution")
    IN  CASE k = 1 -> FGeq(prgi, <<99, 100>>)
          [] k = 2 -> FGreater(allocation, <<0, 1>>) /\ FEq(distribution, <<0, 1>>)
          [] k = 3 -> FGreater(allocation, <<1000000, 1>>)
          [] k = 4 -> FGreater(<<0, 1>>, allocation) \/ FGreater(<<0, 1>>, distribution)
          [] k = 5 -> FGreater(distribution, allocation)

RuleEntries ==
    <<"100% delivery gap", "No distribution", "Unusually high allocation",
      "Negative values", "Distribution exceeds allocation">>

RECURSIVE EntriesFrom(_, _)
EntriesFrom(k, row) ==
    IF k > Len(RuleEntries) THEN <<>>
    ELSE (IF RuleFires(k, row) THEN <<RuleEntries[k]>> ELSE <<>>) \o EntriesFrom(k + 1, row)

\* C12: detect_simple_anomalies returns one record per input record, flagged
\* exactly when at least one of the five rules holds (prgi >= 0.99; allocation
\* > 0 and distribution = 0; allocation > 1,000,000; a negative quantity;
\* distribution > allocation); its reason is the entries of the rules that
\* fire, in that order, joined by "; ", and is empty exactly when none fires.
C12_SimpleRules ==
    SimpleCalled =>
        /\ Len(simple_out) = Len(anom_rows)
        /\ \A i \in DOMAIN simple_out :
             LET o == simple_out[i]
             IN  /\ o.row = anom_rows[i]
                 /\ o.is_simple_anomaly = (\E k \in DOMAIN RuleEntries : RuleFires(k, o.row))
                 /\ o.simple_anomaly = Join("; ", EntriesFrom(1, o.row))
                 /\ (o.simple_anomaly = "") = ~o.is_simple_anomaly

\* the record with allocation 1000 and distribution 1200 is flagged for that reason
C12_Witness ==
    /\ SimpleCalled
    /\ \E i \in DOMAIN simple_out :
         /\ "allocation" \in DOMAIN simple_out[i].row
         /\ "distribution" \in DOMAIN simple_out[i].row
         /\ FEq(simple_out[i].row["allocation"], <<1000, 1>>)
         /\ FEq(simple_out[i].row["distribution"], <<1200, 1>>)
         /\ simple_out[i].is_simple_anomaly
         /\ simple_out[i].simple_anomaly = "Distribution exceeds allocation"

\* a record on the 0.99 boundary with nothing distributed: two entries, in order
C12_WitnessTwoRules ==
    /\ SimpleCalled
    /\ \E i \in DOMAIN simple_out :
         simple_out[i].simple_anomaly = "100% delivery gap; No distribution"

NotTrainedError == "ValueError: Model not trained. Call fit() first."

\* C14: on an AnomalyDetector, whatever the calls made, a detect with no fit
\* before it raises and returns nothing; a detect after a fit that completed
\* never raises the not-trained error; detect_simple_anomalies runs without
\* any fit and never raises.
C14_FitBeforeDetect ==
    /\ \A k \in DOMAIN detector_log :
         LET call == detector_log[k]
             fitsBefore == {j \in 1..(k - 1) : detector_log[j].op = "fit"}
         IN  /\ (call.op = "detect" /\ fitsBefore = {}) => call.raised
             /\ (call.op = "detect" /\ \E j \in fitsBefore : ~detector_log[j].raised) =>
                    call.error # NotTrainedError
             /\ call.op = "detect_simple_anomalies" => ~call.raised
    /\ (\A k \in DOMAIN detector_log :
            detector_log[k].op = "detect" => detector_log[k].raised) => detect_out = <<>>
    /\ (\E k \in DOMAIN detector_log : detector_log[k].op = "detect_simple_anomalies") =>
            Len(simple_out) = Len(anom_rows)

\* detect refused before fit, then fit completed, then detect returned rows
C14_Witness ==
    /\ Len(detector_log) = 3
    /\ detector_log[1].op = "detect" /\ detector_log[1].error = NotTrainedError
    /\ detector_log[2].op = "fit" /\ ~detector_log[2].raised
    /\ detector_log[3].op = "detect" /\ ~detector_log[3].raised
    /\ detect_out # <<>>

\* the rule-based pass ran on a detector that was never fitted
C14_WitnessSimpleFirst ==
    /\ Len(detector_log) >= 1
    /\ detector_log[1].op = "detect_simple_anomalies"
    /\ detector.model = "None"
    /\ anom_rows # <<>> /\ simple_out # <<>>

(***************************************************************************)
(* Claims about AnomalyDetector.detect's reasons (checked under SpecTrend).*)
(***************************************************************************)
\* a PRGI in hundredths
Hundredths(prgi) == (prgi[1] * 100) \div prgi[2]

MonthNumber(r) == r["month"][1] * 12 + r["month"][2]

\* the positions of the rolling window of the returned row k: the up to 3 most recent
\* records of its district, the record itself included
TrendWindow(k) ==
    LET own == {j \in DOMAIN detect_out :
                   /\ detect_out[j].row["district_name"] = detect_out[k].row["district_name"]
                   /\ MonthNumber(detect_out[j].row) <= MonthNumber(detect_out[k].row)}
    IN  {j \in own : Cardinality({l \in own : MonthNumber(detect_out[l].row)
                                                > MonthNumber(detect_out[j].row)}) < 3}

\* the z-score of the record's PRGI against the rolling mean and (sample) standard
\* deviation of its window exceeds 2
TrendZAboveTwo(k) ==
    LET W == TrendWindow(k)
        n == Cardinality(W)
        h == [j \in W |-> Hundredths(detect_out[j].row["prgi"])]
        S == SumOver(h, W)
        Q == SumOver([j \in W |-> h[j] * h[j]], W)
        x == h[k]
    IN  /\ n >= 2
        /\ n * Q - S * S > 0
        /\ (n - 1) * (n * x - S) * (n * x - S) > 4 * n * (n * Q - S * S)

\* the reasons the claim lists for a flagged record, in its order
ClaimedReasons(k) ==
    LET row == detect_out[k].row
    IN  (IF QLeq(<<99, 100>>, row["prgi"])
         THEN <<"100% delivery gap (possible data error)">> ELSE <<>>)
        \o (IF row["allocation"][1] > 0 /\ row["distribution"][1] = 0
            THEN <<"Zero distribution despite allocation">> ELSE <<>>)
        \o (IF QLess(<<1, 2>>, row["prgi"])
            THEN <<"Unusually high gap (" \o FormatPercent(row["prgi"]) \o "%)">> ELSE <<>>)
        \o (IF TrendZAboveTwo(k) THEN <<"Large deviation from trend (Z=?)">> ELSE <<>>)

\* C27: anomaly_reason is empty for every record with is_anomaly = false; for a
\* flagged record it lists, in this order, the checks that fire: PRGI >= 0.99, zero
\* distribution despite allocation > 0, PRGI > 0.5, a z-score above 2 of the
\* record's PRGI against its district's 3-month rolling mean and standard
\* deviation; the statistical-outlier reason is given exactly when none fires.
C27_AnomalyReasons ==
    \A k \in DOMAIN detect_out :
        IF ~detect_out[k].is_anomaly THEN detect_out[k].anomaly_reason = ""
        ELSE detect_out[k].anomaly_reason
               = Join("; ", IF ClaimedReasons(k) = <<>>
                            THEN <<"Statistical outlier (Isolation Forest)">>
                            ELSE ClaimedReasons(k))

\* three records of one district returned by detect: the flagged latest one stands
\* far above the two before it and gets the two gap reasons, a flagged earlier one
\* gets the generic reason, and the third is not flagged
C27_Witness ==
    /\ Len(detect_out) = 3
    /\ Cardinality(TrendWindow(3)) = 3
    /\ detect_out[3].is_anomaly
    /\ detect_out[3].row["prgi"] = <<99, 100>>
    /\ detect_out[2].row["prgi"] = <<1, 10>>
    /\ detect_out[3].anomaly_reason
         = "100% delivery gap (possible data error); Unusually high gap (99.0%)"
    /\ detect_out[2].is_anomaly
    /\ detect_out[2].anomaly_reason = "Statistical outlier (Isolation Forest)"
    /\ ~detect_out[1].is_anomaly /\ detect_out[1].anomaly_reason = ""

\* a flagged record without distribution whose PRGI sits on the 0.5 bound
C27_WitnessOnBound ==
    /\ Len(detect_out) >= 1
    /\ detect_out[1].is_anomaly
    /\ detect_out[1].row["prgi"] = <<1, 2>>
    /\ detect_out[1].anomaly_reason = "Zero distribution despite allocation"


(***************************************************************************)
(* Grievance signal loader: load_grievance_signals (src/src/pgsm.py).      *)
(* The table is read with dtype=str: every cell is a string.               *)
(***************************************************************************)
\* the cells pd.to_numeric(errors='coerce') turns into a number
IsNumeric(cell) == cell \in {"0", "300", "700", "1000", "1200", "-500"}

\* df["source_file"].str.extract(r'(\d{2}-\d{2}-\d{4})'): the first match, None without one
ExtractDate(cell) ==
    CASE cell = "01-01-2024.pdf" -> "01-01-2024"
      [] cell = "15-01-2024.pdf" -> "15-01-2024"
      [] cell = "report_01-02-2024.pdf" -> "01-02-2024"
      [] cell = "31-02-2024.pdf" -> "31-02-2024"
      [] OTHER -> None

\* pd.to_datetime(text, format="%d-%m-%Y", errors='coerce')
ToDatetimeDMY(text) ==
    CASE text = "01-01-2024" -> <<2024, 1, 1>>
      [] text = "15-01-2024" -> <<2024, 1, 15>>
      [] text = "01-02-2024" -> <<2024, 2, 1>>
      [] OTHER -> NaT

\* the order of two timestamps
DateLess(a, b) ==
    \/ a[1] < b[1]
    \/ a[1] = b[1] /\ a[2] < b[2]
    \/ a[1] = b[1] /\ a[2] = b[2] /\ a[3] < b[3]

\* sort_values("month"): rows with equal months keep their order
RECURSIVE SortByMonth(_)
SortByMonth(rows) ==
    IF rows = <<>> THEN <<>>
    ELSE LET i == CHOOSE k \in DOMAIN rows :
                      /\ \A j \in DOMAIN rows : ~DateLess(rows[j].month, rows[k].month)
                      /\ \A j \in 1..(k - 1) : DateLess(rows[k].month, rows[j].month)
         IN  <<rows[i]>> \o SortByMonth(SubSeq(rows, 1, i - 1) \o SubSeq(rows, i + 1, Len(rows)))

\* what a call leaves: the returned table, the return statement taken, the caller's table
LoaderOutcome(branch, columns, rows, df_columns, df_rows) ==
    [branch |-> branch, out |-> [columns |-> columns, rows |-> rows],
     df_columns |-> df_columns, df_rows |-> df_rows]

\* lines 19-21: the new format
NewFormat(cols, rows0) ==
    LET m == ColIndex(cols, "month")
        g == ColIndex(cols, "grievance_signals")
        parsed == [i \in DOMAIN rows0 |->
                     [rows0[i] EXCEPT ![m] = ToDatetime(rows0[i][m]),
                                      ![g] = IF IsNumeric(rows0[i][g])
                                             THEN <<ToNumeric(rows0[i][g])>> ELSE <<>>]]
        kept == SelectSeq(parsed, LAMBDA r : r[m] # NaT /\ r[g] # <<>>)
        picked == [i \in DOMAIN kept |-> [month |-> kept[i][m], grievance_signals |-> kept[i][g][1]]]
    IN  LoaderOutcome("new", <<"month", "grievance_signals">>, SortByMonth(picked), cols, parsed)

\* lines 28-33: the legacy format
LegacyFormat(cols, rows0) ==
    LET f == ColIndex(cols, "source_file")
        extracted == [i \in DOMAIN rows0 |-> ExtractDate(rows0[i][f])]
        month == [i \in DOMAIN rows0 |-> ToDatetimeDMY(extracted[i])]
        \* df["month"] = ...: every column of that name is overwritten, or one is appended
        withMonth == IF InColumns("month", cols)
                     THEN [i \in DOMAIN rows0 |->
                             [k \in 1..(Len(cols) + 1) |->
                                IF k = Len(cols) + 1 THEN extracted[i]
                                ELSE IF cols[k] = "month" THEN month[i]
                                ELSE rows0[i][k]]]
                     ELSE [i \in DOMAIN rows0 |-> Append(Append(rows0[i], extracted[i]), month[i])]
        dfCols == IF InColumns("month", cols) THEN Append(cols, "extracted_date")
                  ELSE Append(Append(cols, "extracted_date"), "month")
        months == {month[i] : i \in DOMAIN rows0} \ {NaT}
        counts == {[month |-> d, grievance_signals |-> Cardinality({i \in DOMAIN rows0 : month[i] = d})] :
                       d \in months}
        \* groupby sorts its keys
        RECURSIVE Ordered(_)
        Ordered(S) == IF S = {} THEN <<>>
                      ELSE LET r == CHOOSE x \in S : \A y \in S : ~DateLess(y.month, x.month)
                           IN  <<r>> \o Ordered(S \ {r})
    IN  IF IsDuplicated(cols, "month")
        THEN LoaderOutcome("except", <<>>, <<>>, dfCols, withMonth)   \* groupby("month") raises
        ELSE LoaderOutcome("legacy", <<"month", "grievance_signals">>, SortByMonth(Ordered(counts)),
                           dfCols, withMonth)

\* a detection that lets a source_file column take the table for the legacy format
LegacyFirst(cols) ==
    InColumns("month", cols) /\ InColumns("grievance_signals", cols) /\ ~InColumns("source_file", cols)
\* if "month" in df.columns and "grievance_signals" in df.columns (line 18)
IsNewFormat(cols) == InColumns("month", cols) /\ InColumns("grievance_signals", cols)

\* load_grievance_signals(df)
load_grievance_signals(cols0, rows0) ==
    IF rows0 = <<>> \/ cols0 = <<>>
    THEN LoaderOutcome("empty input", <<>>, <<>>, cols0, rows0)
    ELSE LET cols == NormColumns(cols0)
         IN  IF IsNewFormat(cols)
             THEN IF IsDuplicated(cols, "month")
                  THEN LoaderOutcome("except", <<>>, <<>>, cols, rows0)   \* pd.to_datetime raises
                  ELSE IF IsDuplicated(cols, "grievance_signals")
                  THEN LoaderOutcome("except", <<>>, <<>>, cols,           \* pd.to_numeric raises
                                     [i \in DOMAIN rows0 |->
                                        [rows0[i] EXCEPT ![ColIndex(cols, "month")] =
                                                             ToDatetime(rows0[i][ColIndex(cols, "month")])]])
                  ELSE NewFormat(cols, rows0)
             ELSE IF InColumns("source_file", cols)
             THEN IF IsDuplicated(cols, "source_file")
                  THEN LoaderOutcome("except", <<>>, <<>>, cols, rows0)   \* .str raises
                  ELSE LegacyFormat(cols, rows0)
             ELSE LoaderOutcome("neither", <<>>, <<>>, cols, rows0)

(***************************************************************************)
(* The grievance tables the loader is given.                               *)
(***************************************************************************)
MaxRawRows == 2

RawSchemas ==
    {<<"month", "grievance_signals">>,
     <<"Month", " Grievance_Signals ", "source_file">>,
     <<"source_file", "district">>,
     <<"Source_File", "month">>,
     <<"grievance_signals", "source_file">>,
     <<"district", "count">>,
     <<"month", "count">>,
     <<"Month", "month", "grievance_signals">>,
     <<"source_file", "Source_File">>,
     <<"month", "grievance_signals", "source">>,
     <<>>}

\* the cells a column may hold; in a table that has a month column the
\* source_file column names one report
RawCellDomain(schema, i) ==
    LET c == Strip(Lower(schema[i]))
    IN  CASE c = "month" -> {"2024-01-01", "2024-02-01", "n/a"}
          [] c = "grievance_signals" -> {"300", "700", "n/a"}
          [] c = "source_file" ->
                IF \E k \in DOMAIN schema : Strip(Lower(schema[k])) = "month" THEN {"01-01-2024.pdf"}
                ELSE {"01-01-2024.pdf", "15-01-2024.pdf", "report_01-02-2024.pdf",
                      "31-02-2024.pdf", "notes.pdf"}
          [] c = "district" -> {"Agra"}
          [] c = "source" -> {"cpgrams", "state portal"}
          [] OTHER -> {"300"}

RawRowsOf(schema) ==
    {row \in [DOMAIN schema -> UNION {RawCellDomain(schema, i) : i \in DOMAIN schema}] :
        \A i \in DOMAIN schema : row[i] \in RawCellDomain(schema, i)}

InitLoader ==
    /\ pc = "loader"
    /\ PrgiIdle /\ RankIdle /\ SpikeIdle /\ PeerIdle /\ AnomIdle /\ DashIdle
    /\ raw_columns \in RawSchemas
    /\ raw_rows \in SeqsUpTo(RawRowsOf(raw_columns), MaxRawRows)
    /\ signals_out = [columns |-> <<>>, rows |-> <<>>]
    /\ signals_branch = "not called"
    /\ raw_given = [columns |-> raw_columns, rows |-> raw_rows]

\* pgsm_df = load_grievance_signals(raw_grievance_df)
LoadSignals ==
    /\ pc = "loader"
    /\ LET o == load_grievance_signals(raw_columns, raw_rows)
       IN  /\ signals_out' = o.out
           /\ signals_branch' = o.branch
           /\ raw_columns' = o.df_columns
           /\ raw_rows' = o.df_rows
    /\ pc' = "loader_done"
    /\ UNCHANGED <<dashVars, raw_given, prgiVars, rankVars, spikeVars, peerVars, anomVars>>

NextLoader == LoadSignals

SpecLoader == InitLoader /\ [][NextLoader]_vars

(***************************************************************************)
(* Claims about the grievance signal loader                                *)
(***************************************************************************)
LoaderDone == pc = "loader_done"

GivenRawCols == NormColumns(raw_given.columns)
GivenHasNew == InColumns("month", GivenRawCols) /\ InColumns("grievance_signals", GivenRawCols)
GivenHasLegacy == InColumns("source_file", GivenRawCols)
GivenHasDuplicate ==
    \E i, j \in DOMAIN GivenRawCols : i # j /\ GivenRawCols[i] = GivenRawCols[j]

\* the returned rows are in ascending month order
SignalsSorted ==
    \A i, j \in DOMAIN signals_out.rows :
        i < j => ~DateLess(signals_out.rows[j].month, signals_out.rows[i].month)

\* the returned rows are the given rows with a date and a number, each once
IsNewSeries ==
    LET m == ColIndex(GivenRawCols, "month")
        g == ColIndex(GivenRawCols, "grievance_signals")
        good == {i \in DOMAIN raw_given.rows :
                    ToDatetime(raw_given.rows[i][m]) # NaT /\ IsNumeric(raw_given.rows[i][g])}
        Value(i) == [month |-> ToDatetime(raw_given.rows[i][m]),
                     grievance_signals |-> ToNumeric(raw_given.rows[i][g])]
    IN  /\ Len(signals_out.rows) = Cardinality(good)
        /\ \A i \in good :
             Cardinality({k \in DOMAIN signals_out.rows : signals_out.rows[k] = Value(i)})
               = Cardinality({j \in good : Value(j) = Value(i)})
        /\ SignalsSorted

\* the returned rows count the given rows per date found in source_file
IsLegacyCounts ==
    LET f == ColIndex(GivenRawCols, "source_file")
        DateOf(i) == ToDatetimeDMY(ExtractDate(raw_given.rows[i][f]))
        dated == {i \in DOMAIN raw_given.rows : DateOf(i) # NaT}
    IN  /\ {r.month : r \in Range(signals_out.rows)} = {DateOf(i) : i \in dated}
        /\ Len(signals_out.rows) = Cardinality({DateOf(i) : i \in dated})
        /\ \A k \in DOMAIN signals_out.rows :
             signals_out.rows[k].grievance_signals
               = Cardinality({i \in dated : DateOf(i) = signals_out.rows[k].month})
        /\ SignalsSorted

\* C13: given a table with rows, load_grievance_signals uses the new-format logic
\* whenever the (normalized) columns include both month and grievance_signals,
\* source_file or not; the legacy row count only when one of the two is absent
\* and source_file is present; with neither format the result is empty.  The
\* only other outcome is the empty table returned when a duplicated column
\* name makes the chosen logic raise.
C13_SchemaPriority ==
    LoaderDone =>
        IF raw_given.rows = <<>> \/ raw_given.columns = <<>> THEN signals_out.rows = <<>>
        ELSE /\ GivenHasNew =>
                  /\ signals_branch \in {"new", "except"}
                  /\ signals_branch = "new" => IsNewSeries
             /\ (~GivenHasNew /\ GivenHasLegacy) =>
                  /\ signals_branch \in {"legacy", "except"}
                  /\ signals_branch = "legacy" => IsLegacyCounts
             /\ (~GivenHasNew /\ ~GivenHasLegacy) =>
                  /\ signals_branch = "neither"
                  /\ signals_out.rows = <<>>
             /\ signals_branch = "except" => GivenHasDuplicate /\ signals_out.rows = <<>>

\* month, grievance_signals and source_file all present: the rows come back with
\* their own counts, not as a count of rows per report date
C13_Witness ==
    /\ LoaderDone
    /\ GivenHasNew /\ GivenHasLegacy
    /\ signals_branch = "new"
    /\ Len(raw_given.rows) = 2
    /\ Len(signals_out.rows) = 2
    /\ signals_out.rows[1].grievance_signals = 700
    /\ signals_out.rows[2].grievance_signals = 300

\* a legacy table: two rows of one report date are counted as 2
C13_WitnessLegacy ==
    /\ LoaderDone
    /\ signals_branch = "legacy"
    /\ \E k \in DOMAIN signals_out.rows : signals_out.rows[k].grievance_signals = 2

\* two timestamps of one calendar month
SameCalendarMonth(a, b) == a[1] = b[1] /\ a[2] = b[2]

\* the date a given row's source_file embeds, NaT without one
GivenReportDate(i) ==
    ToDatetimeDMY(ExtractDate(raw_given.rows[i][ColIndex(GivenRawCols, "source_file")]))

\* C24: for a legacy table the result has one row per calendar month, whose
\* grievance_signals is the number of given rows whose source_file embeds a
\* DD-MM-YYYY date of that month; rows without such a date are counted nowhere;
\* the rows are in ascending month order.
C24_LegacyMonthlyCounts ==
    (LoaderDone /\ signals_branch = "legacy") =>
        LET dated == {i \in DOMAIN raw_given.rows : GivenReportDate(i) # NaT}
        IN  /\ \A j, k \in DOMAIN signals_out.rows :
                 SameCalendarMonth(signals_out.rows[j].month, signals_out.rows[k].month) => j = k
            /\ \A i \in dated : \E k \in DOMAIN signals_out.rows :
                 SameCalendarMonth(signals_out.rows[k].month, GivenReportDate(i))
            /\ \A k \in DOMAIN signals_out.rows :
                 signals_out.rows[k].grievance_signals
                   = Cardinality({i \in dated :
                                     SameCalendarMonth(GivenReportDate(i), signals_out.rows[k].month)})
            /\ SignalsSorted

\* C25: for a new-schema table the result is the series (month, grievance_signals
\* [, source]): rows whose month is no date or whose count is no number are
\* dropped, the others are sorted by month ascending, and when the input has a
\* source column every output row keeps its source tag.
C25_CanonicalSeries ==
    (LoaderDone /\ signals_branch = "new") =>
        /\ IsNewSeries
        /\ InColumns("source", GivenRawCols) =>
             /\ InColumns("source", signals_out.columns)
             /\ \A k \in DOMAIN signals_out.rows :
                  /\ "source" \in DOMAIN signals_out.rows[k]
                  /\ \E i \in DOMAIN raw_given.rows :
                       /\ raw_given.rows[i][ColIndex(GivenRawCols, "source")] = signals_out.rows[k].source
                       /\ ToDatetime(raw_given.rows[i][ColIndex(GivenRawCols, "month")])
                            = signals_out.rows[k].month

(***************************************************************************)
(* Dashboard spike alert (src/pages/1_Dashboard.py, lines 60-233).         *)
(* PRGI values are exact quotients; a table holds one record per           *)
(* (district, month), months numbered in calendar order.                   *)
(***************************************************************************)
\* SPIKE_SENSITIVITY = 1.5 (src/src/config.py)
SPIKE_SENSITIVITY == <<3, 2>>

\* district_df = prgi_df[prgi_df["district"] == district].sort_values("month")
RECURSIVE SortedByMonth(_)
SortedByMonth(rows) ==
    IF rows = {} THEN <<>>
    ELSE LET first == CHOOSE r \in rows : \A q \in rows : r.month <= q.month
         IN  <<first>> \o SortedByMonth(rows \ {first})

district_df(t, district) == SortedByMonth({r \in t : r.district = district})

\* district_df["prgi"].iloc[-4:-1].mean(), on a series of at least 4 values
last_3_avg(series) ==
    LET n == Len(series)
        a == series[n - 3]
        b == series[n - 2]
        c == series[n - 1]
    IN  Lowest(<<a[1] * b[2] * c[2] + b[1] * a[2] * c[2] + c[1] * a[2] * b[2], 3 * a[2] * b[2] * c[2]>>)

\* a floor that the value may sit on
AtOrAboveFloor(current) == QLeq(<<1, 10>>, current)
\* current > 0.1
AboveFloor(current) == QLess(<<1, 10>>, current)

\* lines 226-233: whether st.error shows the spike alert
SpikeAlert(series) ==
    IF Len(series) >= 4
    THEN LET current == series[Len(series)]
         IN  QLess(QTimes(last_3_avg(series), SPIKE_SENSITIVITY), current) /\ AboveFloor(current)
    ELSE FALSE

(***************************************************************************)
(* The PRGI tables the dashboard shows: up to MaxDashMonths months of one  *)
(* district, with or without a record of a second district.                *)
(***************************************************************************)
MaxDashMonths == 5

DashPrgi == {<<0, 1>>, <<1, 10>>, <<11, 100>>, <<3, 20>>, <<4, 25>>}

DashTables ==
    UNION {{ {[district |-> "Agra", month |-> m, prgi |-> f[m]] : m \in 1..k} \cup other :
               f \in [1..k -> DashPrgi],
               other \in {{}, {[district |-> "Kanpur", month |-> k + 1, prgi |-> <<3, 10>>]}} } :
           k \in 1..MaxDashMonths}

InitDash ==
    /\ pc = "dash"
    /\ dash_df \in DashTables
    /\ dash_district \in {r.district : r \in dash_df}
    /\ dash_alert = FALSE
    /\ PrgiIdle /\ RankIdle /\ SpikeIdle /\ PeerIdle /\ AnomIdle /\ LoaderIdle

\* the page renders the selected district
RenderDistrict ==
    /\ pc = "dash"
    /\ dash_alert' = SpikeAlert([i \in DOMAIN district_df(dash_df, dash_district) |->
                                   district_df(dash_df, dash_district)[i].prgi])
    /\ pc' = "dash_done"
    /\ UNCHANGED <<dash_df, dash_district, prgiVars, rankVars, spikeVars, peerVars, anomVars, loaderVars>>

NextDash == RenderDistrict

SpecDash == InitDash /\ [][NextDash]_vars

(***************************************************************************)
(* Claims about the dashboard spike alert (checked under SpecDash).        *)
(***************************************************************************)
\* the PRGI of the picked district in its k-th most recent month (k = 1: the latest)
RecentPrgi(k) ==
    LET own == {r \in dash_df : r.district = dash_district}
        row == CHOOSE r \in own : Cardinality({q \in own : q.month >= r.month}) = k
    IN  row.prgi

HistoryMonths == Cardinality({r.month : r \in {q \in dash_df : q.district = dash_district}})

\* the sum of three quotients is less than twice a fourth: mean(a, b, c) * 1.5 < x
MeanTimesSensitivityBelow(a, b, c, x) ==
    (a[1] * b[2] * c[2] + b[1] * a[2] * c[2] + c[1] * a[2] * b[2]) * x[2]
        < 2 * x[1] * a[2] * b[2] * c[2]

\* C26: the alert is raised exactly when the district has at least 4 months of
\* history, its latest PRGI is strictly greater than 1.5 times the mean of the 3
\* months just before the latest, and its latest PRGI is strictly greater than 0.1.
C26_SpikeAlert ==
    pc = "dash_done" =>
        (dash_alert <=>
            /\ HistoryMonths >= 4
            /\ MeanTimesSensitivityBelow(RecentPrgi(4), RecentPrgi(3), RecentPrgi(2), RecentPrgi(1))
            /\ RecentPrgi(1)[1] * 10 > RecentPrgi(1)[2])

\* an alert on a latest PRGI just above the floor
C26_Witness ==
    /\ pc = "dash_done"
    /\ dash_alert
    /\ RecentPrgi(1) = <<11, 100>>

\* a latest PRGI of exactly 0.1, above 1.5 times the mean before it: no alert
C26_WitnessOnFloor ==
    /\ pc = "dash_done"
    /\ HistoryMonths >= 4
    /\ RecentPrgi(1) = <<1, 10>>
    /\ MeanTimesSensitivityBelow(RecentPrgi(4), RecentPrgi(3), RecentPrgi(2), RecentPrgi(1))
    /\ ~dash_alert

\* a latest PRGI of exactly 1.5 times the mean before it: no alert
C26_WitnessOnThreshold ==
    /\ pc = "dash_done"
    /\ HistoryMonths >= 4
    /\ RecentPrgi(1) = <<3, 20>>
    /\ RecentPrgi(2) = <<1, 10>> /\ RecentPrgi(3) = <<1, 10>> /\ RecentPrgi(4) = <<1, 10>>
    /\ ~dash_alert

====
